---- MODULE Spec2Model ----
(***************************************************************************)
(* Verification model of COGITARA_IA, src/src/utils.py:                    *)
(*   - SecurityManager: failed-attempt log and block set (the Guard),      *)
(*     first call by call (Spec), then bytecode-step interleavings of      *)
(*     several request threads on the unlocked state (SpecConc);           *)
(*   - DataProcessor: analyze_text, analyze_numeric_data, detect_patterns  *)
(*     and comprehensive_analysis as pure functions of their input         *)
(*     (SpecAn);                                                           *)
(*   - SecurityManager.is_strong_password (SpecPw) and CacheManager        *)
(*     (SpecCache);                                                        *)
(* and of DatabaseManager.authenticate_user, src/src/database.py (SpecDb). *)
(* Time is counted in minutes.  Rational results are reported in           *)
(* ten-thousandths, which is what round(x, 4) keeps.                       *)
(***************************************************************************)
EXTENDS Integers, Sequences, FiniteSets, TLC

VARIABLES
    now,              \* datetime.now(), minutes
    failed_attempts,  \* SecurityManager.failed_attempts: address -> list of timestamps
    blocked_ips,      \* SecurityManager.blocked_ips
    lastCall,         \* the Guard call that returned last, and what it returned
    recorded,         \* history: the last MaxAttempts record timestamps since the last clear
    reached,          \* history: a record call since the last clear/expiry met the threshold
    pc,               \* SpecConc: each thread's position in its call
    loc,              \* SpecConc: each thread's local variables
    input,            \* SpecAn: the value handed to the analyzer
    result,           \* SpecAn: what the analyzer call produced
    firstCall,        \* history: the first call of analyze_text, analyze_numeric_data
                      \* or detect_patterns, with its input and what it produced
    password,         \* SpecPw: the string handed to is_strong_password
    strong,           \* SpecPw: what is_strong_password returned
    clock,            \* SpecCache: time.time()
    cache,            \* SpecCache: CacheManager._cache: key -> (value, expiry)
    lastSet,          \* history: the last set of each key since its last delete or clear
    cacheRet,         \* SpecCache: the CacheManager call that returned last, and its value
    users,            \* SpecDb: the committed rows of the users table
    writer,           \* SpecDb: the connection that holds the database write lock
    apc,              \* SpecDb: each thread's position in authenticate_user
    aloc,             \* SpecDb: each thread's local variables and open transaction
    logged            \* history: the authenticate_user calls that returned a user

guardVars == <<now, failed_attempts, blocked_ips, lastCall, recorded, reached>>
concVars == <<pc, loc>>
anVars == <<input, result, firstCall>>
pwVars == <<password, strong>>
cacheVars == <<clock, cache, lastSet, cacheRet>>
dbVars == <<users, writer, apc, aloc, logged>>
restVars == <<pwVars, cacheVars, dbVars>>
vars == <<now, failed_attempts, blocked_ips, lastCall, recorded, reached, pc, loc, input, result,
          firstCall, password, strong, clock, cache, lastSet, cacheRet, users, writer, apc,
          aloc, logged>>

----------------------------------------------------------------------------
(* Program constants *)

\* record_failed_attempt(..., max_attempts: int = 5, ...)
MaxAttempts == 5
\* record_failed_attempt(..., window_minutes: int = 15)
WindowMinutes == 15
\* is_ip_blocked: timedelta(hours=1)
BlockMinutes == 60

(* Bounds of the model *)

\* the clock stops here
MaxTime == 80
\* no record call is made on a log that already holds this many timestamps
MaxLog == 6

\* the clock advances by one of these amounts between calls
ClockSteps == {5, 60}
Addresses == {"1.2.3.4"}

----------------------------------------------------------------------------
(* Helpers on lists *)

RECURSIVE SelectGreater(_, _)
\* [attempt for attempt in log if attempt > cutoff]
SelectGreater(log, cutoff) ==
    IF log = <<>> THEN <<>>
    ELSE IF Head(log) > cutoff
         THEN <<Head(log)>> \o SelectGreater(Tail(log), cutoff)
         ELSE SelectGreater(Tail(log), cutoff)

RECURSIVE SelectGreaterEq(_, _)
SelectGreaterEq(log, cutoff) ==
    IF log = <<>> THEN <<>>
    ELSE IF Head(log) >= cutoff
         THEN <<Head(log)>> \o SelectGreaterEq(Tail(log), cutoff)
         ELSE SelectGreaterEq(Tail(log), cutoff)

\* min(log) of a non-empty list
Min(log) == CHOOSE t \in {log[i] : i \in 1..Len(log)} :
                \A i \in 1..Len(log) : t <= log[i]

\* self.failed_attempts[ip]: a defaultdict(list) reads a missing key as []
Log(fa, a) == IF a \in DOMAIN fa THEN fa[a] ELSE <<>>

\* self.failed_attempts[ip] = value
Store(fa, a, value) ==
    [x \in DOMAIN fa \cup {a} |-> IF x = a THEN value ELSE fa[x]]

\* (self.failed_attempts.clear())
DeleteAll(fa, a) == <<>>

\* del self.failed_attempts[ip]
Delete(fa, a) == [x \in DOMAIN fa \ {a} |-> fa[x]]

\* the last n elements of s
LastN(s, n) == IF Len(s) <= n THEN s ELSE SubSeq(s, Len(s) - n + 1, Len(s))

----------------------------------------------------------------------------
(* SecurityManager, one call at a time *)

\* The log after the append and the pruning of record_failed_attempt at time t
PrunedInclusive(log, t) == SelectGreaterEq(Append(log, t), t - WindowMinutes)
\* (the append without the pruning)
Unpruned(log, t) == Append(log, t)
Pruned(log, t) == SelectGreater(Append(log, t), t - WindowMinutes)

\* if len(self.failed_attempts[ip_address]) >= max_attempts
ThresholdOffByOne(log) == Len(log) > MaxAttempts
ThresholdMet(log) == Len(log) >= MaxAttempts

\* datetime.now() - block_time > timedelta(hours=1)
ExpiredInclusive(log, t) == t - Min(log) >= BlockMinutes
\* (a block of two hours)
ExpiredAfterTwoHours(log, t) == t - Min(log) > 2 * BlockMinutes
Expired(log, t) == t - Min(log) > BlockMinutes

\* History: the timestamps of the last MaxAttempts record calls were all
\* inside the trailing window when the latest of them was made.
ThresholdInWindow(a) ==
    /\ Len(recorded[a]) = MaxAttempts
    /\ \A i \in 1..MaxAttempts :
           recorded[a][i] > recorded[a][MaxAttempts] - WindowMinutes

\* (a record that takes the address off the block set when the pruned log is
\* below the threshold)
record_failed_attempt_unblocking(a) ==
    /\ Len(Log(failed_attempts, a)) < MaxLog
    /\ LET log == Pruned(Log(failed_attempts, a), now)
       IN  /\ failed_attempts' = Store(failed_attempts, a, log)
           /\ blocked_ips' = IF ThresholdMet(log) THEN blocked_ips \cup {a}
                                                  ELSE blocked_ips \ {a}
    /\ recorded' = [recorded EXCEPT ![a] = LastN(Append(@, now), MaxAttempts)]
    /\ reached' = [reached EXCEPT ![a] = @ \/ ThresholdInWindow(a)']
    /\ lastCall' = [op |-> "record", addr |-> a, ret |-> FALSE,
                    wasBlocked |-> a \in blocked_ips]
    /\ UNCHANGED <<now, concVars, anVars, restVars>>

record_failed_attempt(a) ==
    /\ Len(Log(failed_attempts, a)) < MaxLog
    /\ LET log == Pruned(Log(failed_attempts, a), now)
       IN  /\ failed_attempts' = Store(failed_attempts, a, log)
           /\ blocked_ips' = IF ThresholdMet(log) THEN blocked_ips \cup {a}
                                                  ELSE blocked_ips
    /\ recorded' = [recorded EXCEPT ![a] = LastN(Append(@, now), MaxAttempts)]
    /\ reached' = [reached EXCEPT ![a] = @ \/ ThresholdInWindow(a)']
    /\ lastCall' = [op |-> "record", addr |-> a, ret |-> FALSE,
                    wasBlocked |-> a \in blocked_ips]
    /\ UNCHANGED <<now, concVars, anVars, restVars>>

\* The three ways is_ip_blocked returns
CheckNotBlocked(a) ==
    /\ a \notin blocked_ips
    /\ lastCall' = [op |-> "check", addr |-> a, ret |-> FALSE, wasBlocked |-> FALSE]
    /\ UNCHANGED <<failed_attempts, blocked_ips, reached>>

CheckLifted(a) ==
    /\ a \in blocked_ips
    /\ Log(failed_attempts, a) # <<>>
    /\ Expired(Log(failed_attempts, a), now)
    /\ blocked_ips' = blocked_ips \ {a}
    /\ failed_attempts' = Store(failed_attempts, a, <<>>)
    /\ reached' = [reached EXCEPT ![a] = FALSE]
    /\ lastCall' = [op |-> "check", addr |-> a, ret |-> FALSE, wasBlocked |-> TRUE]

CheckStillBlocked(a) ==
    /\ a \in blocked_ips
    /\ \/ Log(failed_attempts, a) = <<>>
       \/ ~Expired(Log(failed_attempts, a), now)
    \* reading self.failed_attempts[ip] creates the key when it is missing
    /\ failed_attempts' = Store(failed_attempts, a, Log(failed_attempts, a))
    /\ lastCall' = [op |-> "check", addr |-> a, ret |-> TRUE, wasBlocked |-> TRUE]
    /\ UNCHANGED <<blocked_ips, reached>>

is_ip_blocked(a) ==
    /\ \/ CheckNotBlocked(a)
       \/ CheckLifted(a)
       \/ CheckStillBlocked(a)
    /\ UNCHANGED <<now, recorded, concVars, anVars, restVars>>

\* (a clear that forgets the block set)
ClearLogOnly(a) ==
    /\ failed_attempts' = IF a \in DOMAIN failed_attempts
                          THEN Delete(failed_attempts, a) ELSE failed_attempts
    /\ recorded' = [recorded EXCEPT ![a] = <<>>]
    /\ reached' = [reached EXCEPT ![a] = FALSE]
    /\ lastCall' = [op |-> "clear", addr |-> a, ret |-> FALSE,
                    wasBlocked |-> a \in blocked_ips]
    /\ UNCHANGED <<blocked_ips, now, concVars, anVars, restVars>>

clear_failed_attempts(a) ==
    /\ failed_attempts' = IF a \in DOMAIN failed_attempts
                          THEN Delete(failed_attempts, a) ELSE failed_attempts
    /\ blocked_ips' = IF a \in blocked_ips THEN blocked_ips \ {a} ELSE blocked_ips
    /\ recorded' = [recorded EXCEPT ![a] = <<>>]
    /\ reached' = [reached EXCEPT ![a] = FALSE]
    /\ lastCall' = [op |-> "clear", addr |-> a, ret |-> FALSE,
                    wasBlocked |-> a \in blocked_ips]
    /\ UNCHANGED <<now, concVars, anVars, restVars>>

\* The clock moves on between two calls
Tick ==
    /\ \E d \in ClockSteps :
          /\ now + d <= MaxTime
          /\ now' = now + d
    /\ UNCHANGED <<failed_attempts, blocked_ips, lastCall, recorded, reached,
                   concVars, anVars, restVars>>

NoCall == [op |-> "none", addr |-> "", ret |-> FALSE, wasBlocked |-> FALSE]

\* SecurityManager.__init__
GuardInit ==
    /\ now = 0
    /\ failed_attempts = <<>>
    /\ blocked_ips = {}
    /\ lastCall = NoCall
    /\ recorded = [a \in Addresses |-> <<>>]
    /\ reached = [a \in Addresses |-> FALSE]

IdleThreads ==
    /\ pc = <<>>
    /\ loc = <<>>

\* no analyzer has been called
NoResult ==
    [kind |-> "none", fn |-> "", success |-> FALSE, data |-> <<>>, metrics |-> <<>>,
     warnings |-> <<>>, recommendations |-> <<>>, processing_time |-> "", exc |-> ""]

\* no analyzer call has been recorded
NoFirst ==
    [fn |-> "", input |-> [kind |-> "none", v |-> 0, items |-> <<>>], result |-> NoResult,
     since |-> "nothing"]

NoAnalysis ==
    /\ input = [kind |-> "none", v |-> 0, items |-> <<>>]
    /\ result = NoResult
    /\ firstCall = NoFirst

\* is_strong_password has not been called
NotAsked == [called |-> FALSE, ret |-> FALSE]

PwIdle ==
    /\ password = <<>>
    /\ strong = NotAsked

\* CacheManager.__init__, and no call yet
Keys == {"k1", "k2"}
NoSet == [set |-> FALSE, value |-> "", at |-> 0, timeout |-> 0]
NoCacheCall == [op |-> "none", key |-> "", none |-> TRUE, value |-> ""]
CacheIdle ==
    /\ clock = 0
    /\ cache = <<>>
    /\ lastSet = [k \in Keys |-> NoSet]
    /\ cacheRet = NoCacheCall

\* The users table after create_user for an active and a deactivated user:
\* profile_data holds statistics.logins = 0 and last_login is NULL
UsersCreated ==
    [u \in {"alice", "bob"} |->
        [password |-> "pw-" \o u, is_active |-> u = "alice", logins |-> 0,
         last_login |-> "NULL"]]

\* The database after the users were created, and no call in progress
DbIdle ==
    /\ users = UsersCreated
    /\ writer = "none"
    /\ apc = <<>>
    /\ aloc = <<>>
    /\ logged = [calls |-> 0, ok |-> 0]

\* nothing but the Guard and the analyzers is in use
RestIdle ==
    /\ PwIdle
    /\ CacheIdle
    /\ DbIdle

Init ==
    /\ GuardInit
    /\ IdleThreads
    /\ NoAnalysis
    /\ RestIdle

Next ==
    \/ \E a \in Addresses : record_failed_attempt(a)
    \/ \E a \in Addresses : is_ip_blocked(a)
    \/ \E a \in Addresses : clear_failed_attempts(a)
    \/ Tick

Spec == Init /\ [][Next]_vars

----------------------------------------------------------------------------
(* SecurityManager called from several request threads.  The class holds no  *)
(* lock (__init__ creates none), so a thread can be preempted between any    *)
(* two accesses to failed_attempts and blocked_ips.  Each step below is one  *)
(* such access: a dict or set operation, together with the local             *)
(* computation that follows it.  Each thread makes one call.                 *)

Threads == {"t1", "t2"}

Goto(t, p) == pc' = [pc EXCEPT ![t] = p]
Return(t, v) ==
    /\ pc' = [pc EXCEPT ![t] = "done"]
    /\ loc' = [loc EXCEPT ![t].ret = v]
Raise(t, e) ==
    /\ pc' = [pc EXCEPT ![t] = "raised"]
    /\ loc' = [loc EXCEPT ![t].ret = e]

NoLocals == [op |-> "none", addr |-> "", at |-> 0, block_time |-> 0,
             snap |-> <<>>, ret |-> "none"]

\* A request handler enters one of the three Guard methods
Call(t) ==
    /\ pc[t] = "idle"
    /\ \E a \in Addresses :
          \E m \in {"record", "check", "clear"} :
              /\ loc' = [loc EXCEPT ![t] = [NoLocals EXCEPT !.op = m, !.addr = a]]
              /\ Goto(t, CASE m = "record" -> "rec_now"
                           [] m = "check" -> "chk_in"
                           [] m = "clear" -> "clr_in")
    /\ UNCHANGED <<guardVars, anVars, restVars>>

\* now = datetime.now()
RecNow(t) ==
    /\ pc[t] = "rec_now"
    /\ loc' = [loc EXCEPT ![t].at = now]
    /\ Goto(t, "rec_append")
    /\ UNCHANGED <<guardVars, anVars, restVars>>

\* self.failed_attempts[ip_address].append(now)
RecAppend(t) ==
    /\ pc[t] = "rec_append"
    /\ LET a == loc[t].addr
       IN  /\ failed_attempts' =
                 Store(failed_attempts, a, Append(Log(failed_attempts, a), loc[t].at))
           /\ recorded' = [recorded EXCEPT ![a] = Append(@, loc[t].at)]
    /\ Goto(t, "rec_filter")
    /\ UNCHANGED <<now, blocked_ips, lastCall, reached, loc, anVars, restVars>>

\* [attempt for attempt in self.failed_attempts[ip_address] if attempt > cutoff]
RecFilter(t) ==
    /\ pc[t] = "rec_filter"
    /\ LET a == loc[t].addr
       IN  /\ failed_attempts' = Store(failed_attempts, a, Log(failed_attempts, a))
           /\ loc' = [loc EXCEPT ![t].snap =
                         SelectGreater(Log(failed_attempts, a),
                                       loc[t].at - WindowMinutes)]
    /\ Goto(t, "rec_store")
    /\ UNCHANGED <<now, blocked_ips, lastCall, recorded, reached, anVars, restVars>>

\* self.failed_attempts[ip_address] = <the filtered list>
RecStore(t) ==
    /\ pc[t] = "rec_store"
    /\ failed_attempts' = Store(failed_attempts, loc[t].addr, loc[t].snap)
    /\ Goto(t, "rec_len")
    /\ UNCHANGED <<now, blocked_ips, lastCall, recorded, reached, loc, anVars, restVars>>

\* if len(self.failed_attempts[ip_address]) >= max_attempts:
RecLen(t) ==
    /\ pc[t] = "rec_len"
    /\ LET a == loc[t].addr
       IN  /\ failed_attempts' = Store(failed_attempts, a, Log(failed_attempts, a))
           /\ IF ThresholdMet(Log(failed_attempts, a))
              THEN Goto(t, "rec_add") /\ UNCHANGED loc
              ELSE Return(t, "none")
    /\ UNCHANGED <<now, blocked_ips, lastCall, recorded, reached, anVars, restVars>>

\* self.blocked_ips.add(ip_address)
RecAdd(t) ==
    /\ pc[t] = "rec_add"
    /\ blocked_ips' = blocked_ips \cup {loc[t].addr}
    /\ Return(t, "none")
    /\ UNCHANGED <<now, failed_attempts, lastCall, recorded, reached, anVars, restVars>>

\* if ip_address in self.blocked_ips:
ChkIn(t) ==
    /\ pc[t] = "chk_in"
    /\ IF loc[t].addr \in blocked_ips
       THEN Goto(t, "chk_truth") /\ UNCHANGED loc
       ELSE Return(t, "false")
    /\ UNCHANGED <<guardVars, anVars, restVars>>

\* if self.failed_attempts[ip_address]:
ChkTruth(t) ==
    /\ pc[t] = "chk_truth"
    /\ LET a == loc[t].addr
       IN  /\ failed_attempts' = Store(failed_attempts, a, Log(failed_attempts, a))
           /\ IF Log(failed_attempts, a) # <<>>
              THEN Goto(t, "chk_min") /\ UNCHANGED loc
              ELSE Return(t, "true")
    /\ UNCHANGED <<now, blocked_ips, lastCall, recorded, reached, anVars, restVars>>

\* block_time = min(self.failed_attempts[ip_address]); min([]) raises ValueError
ChkMin(t) ==
    /\ pc[t] = "chk_min"
    /\ LET a == loc[t].addr
       IN  /\ failed_attempts' = Store(failed_attempts, a, Log(failed_attempts, a))
           /\ IF Log(failed_attempts, a) = <<>>
              THEN Raise(t, "ValueError")
              ELSE /\ loc' = [loc EXCEPT ![t].block_time = Min(Log(failed_attempts, a))]
                   /\ Goto(t, "chk_cmp")
    /\ UNCHANGED <<now, blocked_ips, lastCall, recorded, reached, anVars, restVars>>

\* if datetime.now() - block_time > timedelta(hours=1):
ChkCmp(t) ==
    /\ pc[t] = "chk_cmp"
    /\ IF Expired(<<loc[t].block_time>>, now)
       THEN Goto(t, "chk_remove") /\ UNCHANGED loc
       ELSE Return(t, "true")
    /\ UNCHANGED <<guardVars, anVars, restVars>>

\* self.blocked_ips.remove(ip_address); set.remove of a missing element raises KeyError
ChkRemove(t) ==
    /\ pc[t] = "chk_remove"
    /\ IF loc[t].addr \in blocked_ips
       THEN /\ blocked_ips' = blocked_ips \ {loc[t].addr}
            /\ Goto(t, "chk_clear") /\ UNCHANGED loc
       ELSE /\ Raise(t, "KeyError")
            /\ UNCHANGED blocked_ips
    /\ UNCHANGED <<now, failed_attempts, lastCall, recorded, reached, anVars, restVars>>

\* self.failed_attempts[ip_address].clear(); return False
ChkClear(t) ==
    /\ pc[t] = "chk_clear"
    /\ failed_attempts' = Store(failed_attempts, loc[t].addr, <<>>)
    /\ Return(t, "false")
    /\ UNCHANGED <<now, blocked_ips, lastCall, recorded, reached, anVars, restVars>>

\* if ip_address in self.failed_attempts:
ClrIn(t) ==
    /\ pc[t] = "clr_in"
    /\ IF loc[t].addr \in DOMAIN failed_attempts
       THEN Goto(t, "clr_del")
       ELSE Goto(t, "clr_in2")
    /\ UNCHANGED <<guardVars, loc, anVars, restVars>>

\* del self.failed_attempts[ip_address]; del of a missing key raises KeyError
ClrDel(t) ==
    /\ pc[t] = "clr_del"
    /\ IF loc[t].addr \in DOMAIN failed_attempts
       THEN /\ failed_attempts' = Delete(failed_attempts, loc[t].addr)
            /\ Goto(t, "clr_in2") /\ UNCHANGED loc
       ELSE /\ Raise(t, "KeyError")
            /\ UNCHANGED failed_attempts
    /\ UNCHANGED <<now, blocked_ips, lastCall, recorded, reached, anVars, restVars>>

\* if ip_address in self.blocked_ips:
ClrIn2(t) ==
    /\ pc[t] = "clr_in2"
    /\ IF loc[t].addr \in blocked_ips
       THEN Goto(t, "clr_rm") /\ UNCHANGED loc
       ELSE Return(t, "none")
    /\ UNCHANGED <<guardVars, anVars, restVars>>

\* self.blocked_ips.remove(ip_address)
ClrRm(t) ==
    /\ pc[t] = "clr_rm"
    /\ IF loc[t].addr \in blocked_ips
       THEN /\ blocked_ips' = blocked_ips \ {loc[t].addr}
            /\ Return(t, "none")
       ELSE /\ Raise(t, "KeyError")
            /\ UNCHANGED blocked_ips
    /\ UNCHANGED <<now, failed_attempts, lastCall, recorded, reached, anVars, restVars>>

\* The clock moves on while the threads run
ConcTick ==
    /\ \E d \in ClockSteps :
          /\ now + d <= MaxTime
          /\ now' = now + d
    /\ UNCHANGED <<failed_attempts, blocked_ips, lastCall, recorded, reached,
                   concVars, anVars, restVars>>

\* The Guard as earlier sequential failures at time 0 left it: n0 timestamps in
\* the log of each address, blocked when n0 reached the threshold.
ConcInit ==
    /\ now = 0
    /\ \E n0 \in 0..MaxAttempts :
          /\ failed_attempts = IF n0 = 0 THEN <<>>
                               ELSE [a \in Addresses |-> [i \in 1..n0 |-> 0]]
          /\ blocked_ips = IF n0 >= MaxAttempts THEN Addresses ELSE {}
          /\ recorded = [a \in Addresses |-> [i \in 1..n0 |-> 0]]
          /\ reached = [a \in Addresses |-> n0 >= MaxAttempts]
    /\ lastCall = NoCall
    /\ pc = [t \in Threads |-> "idle"]
    /\ loc = [t \in Threads |-> NoLocals]
    /\ NoAnalysis
    /\ RestIdle

ConcNext ==
    \/ \E t \in Threads : Call(t)
    \/ \E t \in Threads : RecNow(t)
    \/ \E t \in Threads : RecAppend(t)
    \/ \E t \in Threads : RecFilter(t)
    \/ \E t \in Threads : RecStore(t)
    \/ \E t \in Threads : RecLen(t)
    \/ \E t \in Threads : RecAdd(t)
    \/ \E t \in Threads : ChkIn(t)
    \/ \E t \in Threads : ChkTruth(t)
    \/ \E t \in Threads : ChkMin(t)
    \/ \E t \in Threads : ChkCmp(t)
    \/ \E t \in Threads : ChkRemove(t)
    \/ \E t \in Threads : ChkClear(t)
    \/ \E t \in Threads : ClrIn(t)
    \/ \E t \in Threads : ClrDel(t)
    \/ \E t \in Threads : ClrIn2(t)
    \/ \E t \in Threads : ClrRm(t)
    \/ ConcTick

SpecConc == ConcInit /\ [][ConcNext]_vars

----------------------------------------------------------------------------
(* DataProcessor: Python values *)

\* Bounds of the analyzer inputs
\* longest list of mixed entries and longest text
MaxLen == 3

\* A value handed to an analyzer: None, an int, a str (items: its characters),
\* a list or a tuple (items: its entries)
PyNone == [kind |-> "none", v |-> 0, items |-> <<>>]
PyInt(n) == [kind |-> "int", v |-> n, items |-> <<>>]
PyStr(chars) == [kind |-> "str", v |-> 0, items |-> chars]
PyList(entries) == [kind |-> "list", v |-> 0, items |-> entries]
PyTuple(entries) == [kind |-> "tuple", v |-> 0, items |-> entries]

\* The entries of a list: None, small ints, the non-numeric string "a", the
\* numeric string "7", and the int 10**400 (its v stands for a value above
\* every other entry; arithmetic is done on it only in a list of equal values,
\* where the differences alone count).
Entries ==
    {[kind |-> "none", v |-> 0], [kind |-> "int", v |-> 1], [kind |-> "int", v |-> 2],
     [kind |-> "int", v |-> 4], [kind |-> "str", v |-> 0], [kind |-> "numstr", v |-> 7],
     [kind |-> "huge", v |-> 1000]}

Chars == {"a", " ", "."}

SeqsUpTo(S, n) == UNION {[1..k -> S] : k \in 0..n}

Inputs ==
    {PyNone, PyInt(0), PyInt(5), PyTuple(<<[kind |-> "int", v |-> 1],
                                           [kind |-> "int", v |-> 2],
                                           [kind |-> "int", v |-> 4]>>)}
    \cup {PyStr(c) : c \in SeqsUpTo(Chars, MaxLen)}
    \cup {PyList(e) : e \in SeqsUpTo(Entries, MaxLen)}

\* (a test for None alone, as in 'if data is None')
IsNotNone(x) == x.kind # "none"

\* bool(x) of a value: None, 0, "", [] and () are falsy
Truthy(x) ==
    CASE x.kind = "none" -> FALSE
      [] x.kind = "int" -> x.v # 0
      [] OTHER -> x.items # <<>>

\* isinstance(x, (int, float)) for an entry
IsNumber(e) == e.kind \in {"int", "huge"}
\* isinstance(x, str) for an entry
IsStr(e) == e.kind \in {"str", "numstr"}

\* float(x) for an entry: the value, or the exception raised
FloatOf(e) ==
    CASE e.kind \in {"int", "numstr"} -> [ok |-> TRUE, v |-> e.v, err |-> ""]
      [] e.kind = "none" ->
            [ok |-> FALSE, v |-> 0,
             err |-> "float() argument must be a string or a real number, not 'NoneType'"]
      [] e.kind = "str" ->
            [ok |-> FALSE, v |-> 0, err |-> "could not convert string to float: 'a'"]
      [] e.kind = "huge" ->
            [ok |-> FALSE, v |-> 0, err |-> "int too large to convert to float"]

----------------------------------------------------------------------------
(* Arithmetic.  A rational is a pair <<numerator, denominator>>, denominator *)
(* positive; a reported number is an integer count of 10**-places.           *)

Abs(x) == IF x < 0 THEN -x ELSE x

\* round(n/d, places): the nearest multiple of 10**-places (no input of the
\* model lies halfway between two of them)
Round(r, scale) == (2 * r[1] * scale + r[2]) \div (2 * r[2])
Round4(r) == Round(r, 10000)
Round2(r) == Round(r, 100)

RatLess(r, q) == r[1] * q[2] < q[1] * r[2]
RatSub(r, q) == <<r[1] * q[2] - q[1] * r[2], r[2] * q[2]>>
RatAdd(r, q) == <<r[1] * q[2] + q[1] * r[2], r[2] * q[2]>>
RatScale(r, k, d) == <<r[1] * k, r[2] * d>>

RECURSIVE Sum(_)
Sum(xs) == IF xs = <<>> THEN 0 ELSE Head(xs) + Sum(Tail(xs))

RECURSIVE SumSq(_)
SumSq(xs) == IF xs = <<>> THEN 0 ELSE Head(xs) * Head(xs) + SumSq(Tail(xs))

RECURSIVE Insert(_, _)
Insert(x, sorted) ==
    IF sorted = <<>> THEN <<x>>
    ELSE IF x <= Head(sorted) THEN <<x>> \o sorted
         ELSE <<Head(sorted)>> \o Insert(x, Tail(sorted))

RECURSIVE Sorted(_)
\* sorted(data)
Sorted(xs) == IF xs = <<>> THEN <<>> ELSE Insert(Head(xs), Sorted(Tail(xs)))

Count(xs, x) == Cardinality({i \in 1..Len(xs) : xs[i] = x})

\* statistics.mean(data)
Mean(xs) == <<Sum(xs), Len(xs)>>

\* statistics.median(data): the middle value, or the mean of the two middle ones
Median(xs) ==
    LET s == Sorted(xs)
        n == Len(xs)
    IN  IF n % 2 = 1 THEN <<s[(n + 1) \div 2], 1>>
        ELSE <<s[n \div 2] + s[n \div 2 + 1], 2>>

\* statistics.variance(data), n > 1: sum of squared deviations / (n - 1)
Variance(xs) ==
    LET n == Len(xs)
    IN  <<n * SumSq(xs) - Sum(xs) * Sum(xs), n * (n - 1)>>

\* statistics.mode(data) (Python >= 3.8): the first value with the highest count
Mode(xs) ==
    LET best == CHOOSE c \in {Count(xs, xs[i]) : i \in 1..Len(xs)} :
                    \A i \in 1..Len(xs) : Count(xs, xs[i]) <= c
        first == CHOOSE i \in 1..Len(xs) :
                    /\ Count(xs, xs[i]) = best
                    /\ \A j \in 1..(i - 1) : Count(xs, xs[j]) # best
    IN  xs[first]

\* (the cut points taken from the data as given, without sorting it)
QuantileUnsorted(xs, i) ==
    LET ld == Len(xs)
        m == ld + 1
        j0 == (i * m) \div 4
        j == IF j0 < 1 THEN 1 ELSE IF j0 > ld - 1 THEN ld - 1 ELSE j0
        delta == i * m - j * 4
    IN  <<xs[j] * (4 - delta) + xs[j + 1] * delta, 4>>

\* statistics.quantiles(data, n=4)[i - 1], method 'exclusive', len(data) >= 2
Quantile(xs, i) ==
    LET s == Sorted(xs)
        ld == Len(xs)
        m == ld + 1
        j0 == (i * m) \div 4
        j == IF j0 < 1 THEN 1 ELSE IF j0 > ld - 1 THEN ld - 1 ELSE j0
        delta == i * m - j * 4
    IN  <<s[j] * (4 - delta) + s[j + 1] * delta, 4>>

----------------------------------------------------------------------------
(* DataProcessor: AnalysisResult and analyze_numeric_data *)

\* (an AnalysisResult whose warnings list is shared with the result before it)
AnalysisResultSharedWarnings(fn, success, data, metrics, warnings, recommendations, time) ==
    [kind |-> "result", fn |-> fn, success |-> success, data |-> data,
     metrics |-> metrics, warnings |-> result.warnings \o warnings,
     recommendations |-> recommendations, processing_time |-> time, exc |-> ""]

\* What a call produced: an AnalysisResult (kind "result"), or an exception
\* that left the method (kind "raised").  A mapping is a function from its
\* keys; the empty mapping is << >>.  processing_time is wall-clock time:
\* "0" where the code sets 0, "elapsed" otherwise.
AnalysisResult(fn, success, data, metrics, warnings, recommendations, time) ==
    [kind |-> "result", fn |-> fn, success |-> success, data |-> data,
     metrics |-> metrics, warnings |-> warnings,
     recommendations |-> recommendations, processing_time |-> time, exc |-> ""]

\* (a failure result that still reports its timing in metrics)
FailWithMetrics(fn, warning, recommendation, time) ==
    AnalysisResult(fn, FALSE, <<>>, [processing_time |-> time],
                   <<warning>>, <<recommendation>>, time)

\* AnalysisResult(success=False, data={}, metrics={}, warnings=[w], recommendations=[r], ...)
Fail(fn, warning, recommendation, time) ==
    AnalysisResult(fn, FALSE, <<>>, <<>>, <<warning>>, <<recommendation>>, time)

\* An exception that propagates to the caller
Raised(fn, e) ==
    [kind |-> "raised", fn |-> fn, success |-> FALSE, data |-> <<>>,
     metrics |-> <<>>, warnings |-> <<>>, recommendations |-> <<>>,
     processing_time |-> "", exc |-> e]

\* (a filter that drops nothing)
KeepAll(entries) == entries

RECURSIVE NotNone(_)
\* [... for x in data if x is not None]
NotNone(entries) ==
    IF entries = <<>> THEN <<>>
    ELSE IF Head(entries).kind = "none" THEN NotNone(Tail(entries))
         ELSE <<Head(entries)>> \o NotNone(Tail(entries))

RECURSIVE FirstError(_)
\* the exception of the first float(x) that fails, "" when none does
FirstError(entries) ==
    IF entries = <<>> THEN ""
    ELSE IF ~FloatOf(Head(entries)).ok THEN FloatOf(Head(entries)).err
         ELSE FirstError(Tail(entries))

\* [float(x) for x in entries], when every float(x) succeeds
Floats(entries) == [i \in 1..Len(entries) |-> FloatOf(entries[i]).v]

RECURSIVE OutsideInclusive(_, _, _)
\* (the fences themselves counted as outside)
OutsideInclusive(xs, lower, upper) ==
    IF xs = <<>> THEN <<>>
    ELSE IF ~RatLess(lower, <<Head(xs), 1>>) \/ ~RatLess(<<Head(xs), 1>>, upper)
         THEN <<Head(xs)>> \o OutsideInclusive(Tail(xs), lower, upper)
         ELSE OutsideInclusive(Tail(xs), lower, upper)

RECURSIVE Outside(_, _, _)
\* [x for x in data_clean if x < lower_bound or x > upper_bound]
Outside(xs, lower, upper) ==
    IF xs = <<>> THEN <<>>
    ELSE IF RatLess(<<Head(xs), 1>>, lower) \/ RatLess(upper, <<Head(xs), 1>>)
         THEN <<Head(xs)>> \o Outside(Tail(xs), lower, upper)
         ELSE Outside(Tail(xs), lower, upper)

\* (quartiles taken from statistics.quantiles from 3 values on)
QuartileFromThree(xs, i) == IF Len(xs) >= 3 THEN Quantile(xs, i) ELSE Median(xs)

\* statistics.quantiles(data_clean, n=4)[i - 1] if n >= 4 else median
Quartile(xs, i) == IF Len(xs) >= 4 THEN Quantile(xs, i) ELSE Median(xs)

\* The statistics of a non-empty list of numbers (lines 422-481)
NumericReport(xs) ==
    LET n == Len(xs)
        mean == Mean(xs)
        median == Median(xs)
        variance == IF n > 1 THEN Variance(xs) ELSE <<0, 1>>
        data_min == Min(xs)
        data_max == -Min([i \in 1..n |-> -xs[i]])
        q1 == Quartile(xs, 1)
        q3 == Quartile(xs, 3)
        iqr == RatSub(q3, q1)
        lower_bound == RatSub(q1, RatScale(iqr, 3, 2))
        upper_bound == RatAdd(q3, RatScale(iqr, 3, 2))
        outliers == Outside(xs, lower_bound, upper_bound)
    IN  AnalysisResult("analyze_numeric_data", TRUE,
            [descriptive_stats |->
                 [count |-> n,
                  mean |-> Round4(mean),
                  median |-> Round4(median),
                  mode |-> Mode(xs),
                  standard_deviation |-> [sqrt_of |-> variance],
                  variance |-> Round4(variance),
                  range |-> Round4(<<data_max - data_min, 1>>),
                  min |-> Round4(<<data_min, 1>>),
                  max |-> Round4(<<data_max, 1>>)],
             distribution |->
                 [q1 |-> Round4(q1),
                  q3 |-> Round4(q3),
                  iqr |-> Round4(iqr),
                  outliers_count |-> Len(outliers),
                  outliers |-> [i \in 1..Len(outliers) |-> Round4(<<outliers[i], 1>>)]]],
            [processing_time |-> "elapsed",
             data_quality_score |-> <<n - Len(outliers), n>>,
             variability_coefficient |->
                 IF mean[1] # 0 THEN [sqrt_of |-> variance, over |-> mean]
                 ELSE [sqrt_of |-> <<0, 1>>, over |-> <<1, 1>>]],
            IF outliers # <<>> THEN <<"Outliers detected">> ELSE <<>>,
            <<"Consider removing outliers for certain analyses",
              "Check data distribution for normality">>,
            "elapsed")

\* DataProcessor.analyze_numeric_data
analyze_numeric_data(x) ==
    IF ~Truthy(x) \/ x.kind # "list"
    THEN Fail("analyze_numeric_data", "Invalid numeric data",
              "Provide valid numeric list for analysis", "0")
    ELSE LET kept == NotNone(x.items)
         IN  IF FirstError(kept) # ""
             THEN Fail("analyze_numeric_data",
                       "Analysis error: " \o FirstError(kept),
                       "Verify data format and quality", "elapsed")
             ELSE IF kept = <<>>
                  THEN Fail("analyze_numeric_data", "No valid numeric data found",
                            "Check data quality", "0")
                  ELSE NumericReport(Floats(kept))

----------------------------------------------------------------------------
(* DataProcessor.analyze_text *)

RECURSIVE Runs(_, _, _)
\* The maximal runs of characters of s that are not in seps (cur: the run
\* being read): text.split() for seps = whitespace
Runs(s, seps, cur) ==
    IF s = <<>> THEN (IF cur = <<>> THEN <<>> ELSE <<cur>>)
    ELSE IF Head(s) \in seps
         THEN (IF cur = <<>> THEN <<>> ELSE <<cur>>) \o Runs(Tail(s), seps, <<>>)
         ELSE Runs(Tail(s), seps, Append(cur, Head(s)))

RECURSIVE NonBlank(_)
\* [s.strip() for s in sentences if s.strip()]: the pieces with a non-space character
NonBlank(pieces) ==
    IF pieces = <<>> THEN <<>>
    ELSE IF \E i \in 1..Len(Head(pieces)) : Head(pieces)[i] # " "
         THEN <<Head(pieces)>> \o NonBlank(Tail(pieces))
         ELSE NonBlank(Tail(pieces))

\* text.split()
Words(text) == Runs(text, {" "}, <<>>)
\* re.split(r'[.!?]+', text), blank pieces dropped
Sentences(text) == NonBlank(Runs(text, {".", "!", "?"}, <<>>))

RECURSIVE TotalLen(_)
\* sum(len(word) for word in words)
TotalLen(ws) == IF ws = <<>> THEN 0 ELSE Len(Head(ws)) + TotalLen(Tail(ws))

positive_words ==
    {<<"g","o","o","d">>, <<"g","r","e","a","t">>,
     <<"e","x","c","e","l","l","e","n","t">>, <<"a","m","a","z","i","n","g">>,
     <<"w","o","n","d","e","r","f","u","l">>, <<"f","a","n","t","a","s","t","i","c">>}
negative_words ==
    {<<"b","a","d">>, <<"t","e","r","r","i","b","l","e">>, <<"a","w","f","u","l">>,
     <<"h","o","r","r","i","b","l","e">>,
     <<"d","i","s","a","p","p","o","i","n","t","i","n","g">>}

\* sum(1 for word in words if word.lower() in lexicon); the model's texts are lower case
Hits(ws, lexicon) == Cardinality({i \in 1..Len(ws) : ws[i] \in lexicon})

FirstIndex(ws, w) == CHOOSE i \in 1..Len(ws) : ws[i] = w /\ \A j \in 1..(i - 1) : ws[j] # w

\* dict(Counter(words).most_common(10)): the 10 most frequent words with their
\* counts, the first encountered first among equals
WordFrequency(ws) ==
    LET distinct == {ws[i] : i \in 1..Len(ws)}
        Beats(u, w) == \/ Count(ws, u) > Count(ws, w)
                       \/ Count(ws, u) = Count(ws, w) /\ FirstIndex(ws, u) < FirstIndex(ws, w)
        top == {w \in distinct : Cardinality({u \in distinct : Beats(u, w)}) < 10}
    IN  [w \in top |-> Count(ws, w)]

\* max(0, min(100, 206.835 - 1.015*(words/sentences) - 84.6*(avg_word_length/words)))
Readability(wc, sc, letters) ==
    LET r == <<206835 * sc * wc * wc - 1015 * wc * wc * wc - 84600 * letters * sc,
               1000 * sc * wc * wc>>
    IN  IF RatLess(r, <<0, 1>>) THEN <<0, 1>>
        ELSE IF RatLess(<<100, 1>>, r) THEN <<100, 1>>
        ELSE r

\* (a rejection that carries the advice of the success path)
RejectTextSameAdvice ==
    AnalysisResult("analyze_text", FALSE, <<>>, <<>>, <<"Invalid input text">>,
                   <<"Consider longer text for more accurate analysis",
                     "Review word frequency for key themes">>, "0")

\* analyze_text on input that is empty or not a str
RejectText ==
    Fail("analyze_text", "Invalid input text", "Provide valid text for analysis", "0")

\* DataProcessor.analyze_text
analyze_text(x) ==
    IF ~Truthy(x) \/ x.kind # "str"
    THEN RejectText
    ELSE LET words == Words(x.items)
             word_count == Len(words)
             sentence_count == Len(Sentences(x.items))
             unique_words == Cardinality({words[i] : i \in 1..Len(words)})
             letters == TotalLen(words)
         IN  AnalysisResult("analyze_text", TRUE,
                 [basic_stats |->
                      [characters |-> Len(x.items),
                       words |-> word_count,
                       sentences |-> sentence_count,
                       unique_words |-> unique_words],
                  advanced_metrics |->
                      [average_word_length |->
                           IF word_count > 0 THEN Round2(<<letters, word_count>>) ELSE 0,
                       average_sentence_length |->
                           IF sentence_count > 0 THEN Round2(<<word_count, sentence_count>>)
                           ELSE 0,
                       readability_score |->
                           IF sentence_count > 0 /\ word_count > 0
                           THEN Round2(Readability(word_count, sentence_count, letters))
                           ELSE 0,
                       sentiment_score |->
                           IF word_count > 0
                           THEN Round4(<<Hits(words, positive_words)
                                           - Hits(words, negative_words), word_count>>)
                           ELSE 0],
                  word_frequency |-> WordFrequency(words)],
                 [processing_time |-> "elapsed",
                  complexity_score |->
                      IF word_count > 0 THEN <<unique_words, word_count>> ELSE <<0, 1>>],
                 IF word_count > 10 THEN <<>>
                 ELSE <<"Text is very short for meaningful analysis">>,
                 <<"Consider longer text for more accurate analysis",
                   "Review word frequency for key themes">>,
                 "elapsed")

----------------------------------------------------------------------------
(* DataProcessor.detect_patterns and comprehensive_analysis *)

\* _calculate_autocorrelation(..., max_lag: int = 5)
MaxLag == 5

\* The numbers of a list of int entries
Numbers(entries) == [i \in 1..Len(entries) |-> entries[i].v]

\* statistics.mean, statistics.variance and the true divisions of
\* _calculate_autocorrelation work on exact integers and convert to float:
\* with 10**400 among values that are not all equal the conversion raises
\* OverflowError (when all values are equal every deviation is 0 and it does not)
Overflows(entries) ==
    /\ \E i \in 1..Len(entries) : entries[i].kind = "huge"
    /\ \E i, j \in 1..Len(entries) : entries[i] # entries[j]

\* (the covariance at a lag averaged over its n - lag terms instead of n)
AutocorrPerTerm(xs, lag) ==
    LET n == Len(xs)
        total == Sum(xs)
        d == [i \in 1..n |-> n * xs[i] - total]
        cross == Sum([k \in 1..(n - lag) |-> d[k + lag] * d[k]])
        squares == SumSq(d)
    IN  IF squares = 0 THEN <<0, 1>> ELSE <<(n - 1) * cross, (n - lag) * squares>>

\* covariance / variance at one lag, 0 when the variance is 0; with d[i] = n*x[i] - sum:
\* covariance = sum(d[i]*d[i-lag]) / n**3 and variance = sum(d[i]**2) / (n**2 * (n-1))
Autocorr(xs, lag) ==
    LET n == Len(xs)
        total == Sum(xs)
        d == [i \in 1..n |-> n * xs[i] - total]
        cross == Sum([k \in 1..(n - lag) |-> d[k + lag] * d[k]])
        squares == SumSq(d)
    IN  IF squares = 0 THEN <<0, 1>> ELSE <<(n - 1) * cross, n * squares>>

\* DataProcessor._calculate_autocorrelation: one value per lag in range(1, min(max_lag + 1, n))
calculate_autocorrelation(xs) ==
    LET n == Len(xs)
        lags == IF MaxLag + 1 < n THEN MaxLag ELSE n - 1
    IN  IF n <= 1 THEN <<>> ELSE [lag \in 1..lags |-> Autocorr(xs, lag)]

\* re.findall of the e-mail, URL, phone and date patterns.  No text of the
\* model holds '@', 'http', ten digits or a '/' or '-', so nothing matches.
TextPatterns(text) ==
    [emails |-> <<>>, urls |-> <<>>, phone_numbers |-> <<>>, dates |-> <<>>]

\* (a trend that takes a run of equal values for no trend)
TrendStrict(data) ==
    LET differences == [i \in 1..(Len(data) - 1) |-> data[i + 1] - data[i]]
    IN  IF \A i \in DOMAIN differences : differences[i] > 0 THEN "increasing"
        ELSE IF \A i \in DOMAIN differences : differences[i] < 0 THEN "decreasing"
        ELSE "mixed"

\* 'increasing' if is_increasing else 'decreasing' if is_decreasing else 'mixed'
Trend(data) ==
    LET differences == [i \in 1..(Len(data) - 1) |-> data[i + 1] - data[i]]
        is_increasing == \A i \in DOMAIN differences : differences[i] >= 0
        is_decreasing == \A i \in DOMAIN differences : differences[i] <= 0
    IN  IF is_increasing THEN "increasing"
        ELSE IF is_decreasing THEN "decreasing" ELSE "mixed"

\* (a test that flags a correlation of exactly 0.5 as well)
SeasonalityInclusive(autocorr) ==
    \E i \in 1..Len(autocorr) : i <= 5 /\ 2 * Abs(autocorr[i][1]) >= autocorr[i][2]

\* any(abs(corr) > 0.5 for corr in autocorr[:min(5, len(autocorr))])
Seasonality(autocorr) ==
    \E i \in 1..Len(autocorr) : i <= 5 /\ 2 * Abs(autocorr[i][1]) > autocorr[i][2]

\* DataProcessor.detect_patterns
detect_patterns(x) ==
    IF x.kind = "str"
    THEN LET patterns == TextPatterns(x.items)
         IN  AnalysisResult("detect_patterns", TRUE,
                 [pattern_type |-> "text",
                  detected_patterns |-> [k \in DOMAIN patterns |-> Len(patterns[k])],
                  details |-> patterns],
                 [processing_time |-> "elapsed"], <<>>,
                 <<"Review detected patterns for insights">>, "elapsed")
    ELSE IF x.kind = "list" /\ \A i \in 1..Len(x.items) : IsNumber(x.items[i])
    THEN IF Len(x.items) < 3
         THEN Fail("detect_patterns", "Insufficient data for pattern detection",
                   "Provide at least 3 data points", "elapsed")
         ELSE IF Overflows(x.items)
         THEN Raised("detect_patterns", "OverflowError")
         ELSE LET data == Numbers(x.items)
                  autocorr == calculate_autocorrelation(data)
              IN  AnalysisResult("detect_patterns", TRUE,
                      [pattern_type |-> "numeric",
                       trend |-> Trend(data),
                       volatility |-> [sqrt_of |-> Variance(data)],
                       autocorrelation |-> autocorr,
                       seasonality_detected |-> Seasonality(autocorr)],
                      [processing_time |-> "elapsed"], <<>>,
                      <<"Review detected patterns for insights">>, "elapsed")
    ELSE Fail("detect_patterns", "Unsupported data type for pattern detection",
              "Provide text or numeric data", "elapsed")

\* The characters of a str entry
EntryText(e) == IF e.kind = "numstr" THEN <<"7">> ELSE <<"a">>

RECURSIVE Join(_)
\* ' '.join(data)
Join(entries) ==
    IF entries = <<>> THEN <<>>
    ELSE IF Len(entries) = 1 THEN EntryText(Head(entries))
         ELSE EntryText(Head(entries)) \o <<" ">> \o Join(Tail(entries))

\* The analyses comprehensive_analysis runs on its input, in order
Analyses(x) ==
    IF x.kind = "str" THEN <<analyze_text(x), detect_patterns(x)>>
    ELSE IF x.kind = "list"
    THEN IF \A i \in 1..Len(x.items) : IsNumber(x.items[i])
         THEN <<analyze_numeric_data(x), detect_patterns(x)>>
         ELSE IF \A i \in 1..Len(x.items) : IsStr(x.items[i])
              THEN <<analyze_text(PyStr(Join(x.items)))>>
              ELSE <<>>
    ELSE <<>>

\* The orders list(set(strings)) can come out in
Orders(strings) ==
    LET S == {strings[i] : i \in 1..Len(strings)}
    IN  {q \in [1..Cardinality(S) -> S] : \A i, j \in DOMAIN q : i # j => q[i] # q[j]}

RECURSIVE Flatten(_)
Flatten(lists) == IF lists = <<>> THEN <<>> ELSE Head(lists) \o Flatten(Tail(lists))

\* DataProcessor.comprehensive_analysis: the results it can return (the order of
\* list(set(...)) is not determined by the input)
comprehensive_analysis(x) ==
    LET analyses == Analyses(x)
        ok == {i \in 1..Len(analyses) : analyses[i].kind = "result" /\ analyses[i].success}
        Of(i, f) == IF i \in ok THEN analyses[i][f] ELSE <<>>
        m1 == Of(1, "metrics")
        m2 == Of(2, "metrics")
        keys == {"total_processing_time"} \cup DOMAIN m1 \cup DOMAIN m2
        all_warnings == Flatten([i \in 1..Len(analyses) |-> Of(i, "warnings")])
        all_recommendations ==
            Flatten([i \in 1..Len(analyses) |-> Of(i, "recommendations")])
    IN  IF \E i \in 1..Len(analyses) : analyses[i].kind = "raised"
        THEN {Raised("comprehensive_analysis", "OverflowError")}
        ELSE IF analyses = <<>>
        THEN {Fail("comprehensive_analysis",
                   "No suitable analysis method found for data type",
                   "Provide text, numeric data, or list of strings", "elapsed")}
        ELSE {AnalysisResult("comprehensive_analysis", TRUE,
                  [k \in {"analysis_1", "analysis_2"} \cap
                         {IF 1 \in ok THEN "analysis_1" ELSE "",
                          IF 2 \in ok THEN "analysis_2" ELSE ""} |->
                      IF k = "analysis_1" THEN analyses[1].data ELSE analyses[2].data],
                  [k \in keys |->
                      IF k \in DOMAIN m2 THEN m2[k]
                      ELSE IF k \in DOMAIN m1 THEN m1[k] ELSE "elapsed"],
                  w, r, "elapsed") :
              w \in Orders(all_warnings), r \in Orders(all_recommendations)}

----------------------------------------------------------------------------
(* The analyzers as a state machine: an input is drawn, and any analyzer is  *)
(* called on it, any number of times.                                         *)

\* history: keep the first call made, and whether since then another call was
\* made ("other") and then the first call over again ("again")
Remember(fn, r) ==
    firstCall' =
        IF firstCall.fn = ""
        THEN IF fn = "comprehensive_analysis" THEN firstCall
             ELSE [fn |-> fn, input |-> input, result |-> r, since |-> "nothing"]
        ELSE IF fn = firstCall.fn /\ input = firstCall.input
             THEN IF firstCall.since = "other" THEN [firstCall EXCEPT !.since = "again"]
                  ELSE firstCall
             ELSE IF firstCall.since = "nothing" THEN [firstCall EXCEPT !.since = "other"]
                  ELSE firstCall

AnalyzeText ==
    /\ result' = analyze_text(input)
    /\ Remember("analyze_text", result')
    /\ UNCHANGED <<input, guardVars, concVars, restVars>>

AnalyzeNumeric ==
    /\ result' = analyze_numeric_data(input)
    /\ Remember("analyze_numeric_data", result')
    /\ UNCHANGED <<input, guardVars, concVars, restVars>>

DetectPatterns ==
    /\ result' = detect_patterns(input)
    /\ Remember("detect_patterns", result')
    /\ UNCHANGED <<input, guardVars, concVars, restVars>>

ComprehensiveAnalysis ==
    /\ \E r \in comprehensive_analysis(input) : result' = r
    /\ Remember("comprehensive_analysis", result')
    /\ UNCHANGED <<input, guardVars, concVars, restVars>>

AnInit ==
    /\ GuardInit
    /\ IdleThreads
    /\ RestIdle
    /\ input \in Inputs
    /\ result = NoResult
    /\ firstCall = NoFirst

AnNext ==
    \/ AnalyzeText
    \/ AnalyzeNumeric
    \/ DetectPatterns
    \/ ComprehensiveAnalysis

SpecAn == AnInit /\ [][AnNext]_vars

----------------------------------------------------------------------------
(* The analyzers on lists of numbers: longer lists than those of Inputs, over *)
(* values that spread (an isolated 100) and over values that repeat.          *)

\* The longest list of StatValues, and the longest list of SeriesValues
MaxNums == 5
MaxSeries == 7

StatValues == {1, 2, 3, 4, 5, 100}
SeriesValues == {1, 2, 3}

\* The list [x1, ..., xn] of ints
IntList(xs) == PyList([i \in 1..Len(xs) |-> [kind |-> "int", v |-> xs[i]]])

NumInputs ==
    {IntList(xs) : xs \in SeqsUpTo(StatValues, MaxNums) \cup SeqsUpTo(SeriesValues, MaxSeries)}

NumInit ==
    /\ GuardInit
    /\ IdleThreads
    /\ RestIdle
    /\ input \in NumInputs
    /\ result = NoResult
    /\ firstCall = NoFirst

NumNext ==
    \/ AnalyzeNumeric
    \/ DetectPatterns

SpecNum == NumInit /\ [][NumNext]_vars

----------------------------------------------------------------------------
(* One DataProcessor called again and again, on inputs that change between *)
(* the calls.                                                               *)

\* Inputs of every kind the analyzers tell apart
RepeatInputs ==
    {PyNone, PyInt(5), PyStr(<<>>), PyStr(<<"a">>), PyStr(<<"a", ".", " ", "a">>),
     PyList(<<>>), IntList(<<1, 2>>), IntList(<<1, 2, 4>>), IntList(<<4, 1, 4, 1, 4>>),
     IntList(<<1, 2, 3, 4, 100>>),
     PyList(<<[kind |-> "none", v |-> 0], [kind |-> "int", v |-> 2]>>),
     PyList(<<[kind |-> "str", v |-> 0], [kind |-> "int", v |-> 2]>>),
     PyList(<<[kind |-> "huge", v |-> 1000], [kind |-> "int", v |-> 1],
              [kind |-> "int", v |-> 2]>>)}

\* The caller turns to another input; the result it held is dropped
NewInput ==
    /\ \E x \in RepeatInputs \ {input} : input' = x
    /\ result' = NoResult
    /\ UNCHANGED <<firstCall, guardVars, concVars, restVars>>

RepeatInit ==
    /\ GuardInit
    /\ IdleThreads
    /\ RestIdle
    /\ input \in RepeatInputs
    /\ result = NoResult
    /\ firstCall = NoFirst

RepeatNext ==
    \/ AnalyzeText
    \/ AnalyzeNumeric
    \/ DetectPatterns
    \/ ComprehensiveAnalysis
    \/ NewInput

SpecRepeat == RepeatInit /\ [][RepeatNext]_vars

----------------------------------------------------------------------------
(* Claims about the Guard, call by call *)

\* The earliest timestamp still recorded for an address with a non-empty log
EarliestRecorded(a) ==
    LET log == Log(failed_attempts, a)
    IN  CHOOSE t \in {log[i] : i \in 1..Len(log)} :
            \A i \in 1..Len(log) : t <= log[i]

\* C1: once record_failed_attempt(a) has been called MaxAttempts times with all
\* those timestamps inside the trailing window and no clear in between, a is in
\* the block set, and the next is_ip_blocked(a), made while no more than the
\* block duration has elapsed since the earliest timestamp still recorded,
\* returns true.
C1_ThresholdBlocks ==
    /\ [](\A a \in Addresses :
             (lastCall.op = "record" /\ lastCall.addr = a /\ ThresholdInWindow(a))
                 => a \in blocked_ips)
    /\ [][\A a \in Addresses :
             ( /\ lastCall.op = "record"
               /\ lastCall.addr = a
               /\ ThresholdInWindow(a)
               /\ is_ip_blocked(a)
               /\ now - EarliestRecorded(a) <= BlockMinutes )
                 => (lastCall'.ret = TRUE /\ a \in blocked_ips')]_vars

\* C1 witness: after MaxAttempts windowed failures, is_ip_blocked answered true
\* at the very end of the block duration.
C1_Witness ==
    \E a \in Addresses :
        /\ lastCall = [op |-> "check", addr |-> a, ret |-> TRUE, wasBlocked |-> TRUE]
        /\ ThresholdInWindow(a)
        /\ Len(Log(failed_attempts, a)) >= MaxAttempts
        /\ now - EarliestRecorded(a) = BlockMinutes

\* C2: is_ip_blocked(a) on a blocked address: when the time elapsed since the
\* earliest timestamp still recorded exceeds the block duration it removes a
\* from the block set, empties its log and returns false; otherwise it returns
\* true and changes neither the logs nor the block set.
C2_BlockExpiry ==
    [][\A a \in Addresses :
          ( /\ a \in blocked_ips
            /\ Log(failed_attempts, a) # <<>>
            /\ is_ip_blocked(a) )
              => IF now - EarliestRecorded(a) > BlockMinutes
                 THEN /\ a \notin blocked_ips'
                      /\ Log(failed_attempts', a) = <<>>
                      /\ lastCall'.op = "check" /\ lastCall'.ret = FALSE
                 ELSE /\ lastCall'.op = "check" /\ lastCall'.ret = TRUE
                      /\ UNCHANGED <<failed_attempts, blocked_ips>>]_vars

\* C2 witness: a block was lifted by is_ip_blocked.
C2_Witness ==
    \E a \in Addresses :
        /\ lastCall = [op |-> "check", addr |-> a, ret |-> FALSE, wasBlocked |-> TRUE]
        /\ a \notin blocked_ips
        /\ a \in DOMAIN failed_attempts
        /\ failed_attempts[a] = <<>>
        /\ Len(recorded[a]) = MaxAttempts

\* C3: after clear_failed_attempts(a) the address has no log and is not in the
\* block set, and an is_ip_blocked(a) issued next returns false.
C3_ClearIsClean ==
    /\ [](\A a \in Addresses :
             (lastCall.op = "clear" /\ lastCall.addr = a)
                 => (a \notin DOMAIN failed_attempts /\ a \notin blocked_ips))
    /\ [][\A a \in Addresses :
             (lastCall.op = "clear" /\ lastCall.addr = a /\ is_ip_blocked(a))
                 => lastCall'.ret = FALSE]_vars

\* C3 witness: a blocked address was cleared.
C3_Witness ==
    \E a \in Addresses :
        /\ lastCall = [op |-> "clear", addr |-> a, ret |-> FALSE, wasBlocked |-> TRUE]
        /\ a \notin blocked_ips

\* C6: an address is in the block set, and is reported blocked, only if since
\* its last clear or block expiry some record call left at least MaxAttempts
\* timestamps inside the window; below the threshold it is never blocked.
C6_BlockedOnlyAfterThreshold ==
    /\ \A a \in blocked_ips : reached[a]
    /\ (lastCall.op = "check" /\ lastCall.ret) => reached[lastCall.addr]
    /\ \A a \in Addresses :
           (~reached[a] /\ lastCall.op = "check" /\ lastCall.addr = a)
               => ~lastCall.ret

\* C6 witness: a Warned address (some failures, fewer than the threshold in
\* its window) was asked about and reported not blocked.
C6_Witness ==
    \E a \in Addresses :
        /\ lastCall = [op |-> "check", addr |-> a, ret |-> FALSE, wasBlocked |-> FALSE]
        /\ Len(Log(failed_attempts, a)) = MaxAttempts - 1
        /\ ~reached[a]

\* C6 second case: a blocked address whose log was pruned below the threshold
\* by later failures is still blocked, on the strength of the earlier call.
C6_StillBlockedAfterPruning ==
    \E a \in blocked_ips :
        /\ Len(Log(failed_attempts, a)) < MaxAttempts
        /\ reached[a]

----------------------------------------------------------------------------
(* Claims about the Guard under concurrent request threads *)

AllReturned == \A t \in Threads : pc[t] \in {"done", "raised"}

\* C4: concurrent record_failed_attempt calls for one address lose no attempt:
\* once k calls whose timestamps lie together inside the window have returned
\* (and nothing else was called), the log holds every recorded timestamp and
\* the address is blocked when their number reaches MaxAttempts.
C4_NoAttemptLost ==
    \A a \in Addresses :
        ( /\ AllReturned
          /\ \A t \in Threads : loc[t].op = "record" /\ loc[t].addr = a
          /\ \A i, j \in 1..Len(recorded[a]) :
                 recorded[a][i] > recorded[a][j] - WindowMinutes )
            => /\ Len(Log(failed_attempts, a)) = Len(recorded[a])
               /\ (Len(recorded[a]) >= MaxAttempts => a \in blocked_ips)

\* C5: is_ip_blocked never raises, whatever the other threads do meanwhile.
C5_CheckNeverRaises ==
    \A t \in Threads : loc[t].op = "check" => pc[t] # "raised"

----------------------------------------------------------------------------
(* Claims about the analyzers (specification SpecAn) *)

\* The input of the last call is a list
ListInput == input.kind = "list"

\* The entries of the input that are not None
NonNull == SelectSeq(input.items, LAMBDA e : e.kind # "none")

\* The entries of the input that are ints a float can hold, and their values
SmallInts == SelectSeq(input.items, LAMBDA e : e.kind = "int")
ValuesOf(entries) == [i \in 1..Len(entries) |-> entries[i].v]

\* An analyze_numeric_data result that succeeded with the statistics of xs
ReportsOn(xs) ==
    /\ result.kind = "result"
    /\ result.success
    /\ result.data.descriptive_stats.count = Len(xs)
    /\ result.data.descriptive_stats.mean = Round4(<<Sum(xs), Len(xs)>>)
    /\ \E i \in 1..Len(xs) : result.data.descriptive_stats.min = 10000 * xs[i]
    /\ \A i \in 1..Len(xs) : result.data.descriptive_stats.min <= 10000 * xs[i]
    /\ \E i \in 1..Len(xs) : result.data.descriptive_stats.max = 10000 * xs[i]
    /\ \A i \in 1..Len(xs) : result.data.descriptive_stats.max >= 10000 * xs[i]

\* The last call returned a failure with exactly this warning
FailedWith(warning) ==
    /\ result.kind = "result"
    /\ ~result.success
    /\ result.warnings = <<warning>>

\* C7: every AnalysisResult returned by analyze_text, analyze_numeric_data,
\* detect_patterns or comprehensive_analysis with success = false has an empty
\* data mapping and an empty metrics mapping.
C7_FailureIsEmpty ==
    (result.kind = "result" /\ ~result.success) =>
        (DOMAIN result.data = {} /\ DOMAIN result.metrics = {})

\* detect_patterns has returned a failure for a list of fewer than 3 numbers
C7_Witness ==
    /\ result.fn = "detect_patterns"
    /\ FailedWith("Insufficient data for pattern detection")
    /\ DOMAIN result.data = {}

\* C8: no exception crosses the boundary of analyze_text, analyze_numeric_data
\* or detect_patterns: every call returns an AnalysisResult, and a computation
\* fault inside analyze_numeric_data is a failure with a warning
\* 'Analysis error: <message>'.
C8_NoExceptionCrosses ==
    /\ result.fn \in {"analyze_text", "analyze_numeric_data", "detect_patterns"} =>
           result.kind = "result"
    /\ (/\ result.fn = "analyze_numeric_data"
        /\ ListInput
        /\ \E i \in 1..Len(NonNull) : NonNull[i].kind \in {"str", "huge"}) =>
           \/ FailedWith("Analysis error: could not convert string to float: 'a'")
           \/ FailedWith("Analysis error: int too large to convert to float")

\* C9 as stated: analyze_numeric_data filters out the None entries and the
\* non-numeric entries, so that for a list with at least one number alongside
\* None and/or non-numeric entries the result has success = true and the count
\* and statistics of the numbers only.
C9_NonNumericFiltered ==
    (/\ result.fn = "analyze_numeric_data"
     /\ ListInput
     /\ \A i \in 1..Len(input.items) : input.items[i].kind \in {"none", "int", "str"}
     /\ SmallInts # <<>>) =>
        ReportsOn(ValuesOf(SmallInts))

\* C9 as amended: analyze_numeric_data filters out the None entries only.  Every
\* other entry is converted with float(): when each of them converts (numbers,
\* numeric strings) the result has success = true and the count and statistics
\* of all of them; when one does not (a non-numeric string, an int too large
\* for a float) the result is a failure with the warning 'Analysis error: '
\* followed by the message of the failed conversion, and no data.
C9_OnlyNoneFiltered ==
    (/\ result.fn = "analyze_numeric_data"
     /\ ListInput
     /\ NonNull # <<>>) =>
        IF \A i \in 1..Len(NonNull) : NonNull[i].kind \in {"int", "numstr"}
        THEN ReportsOn(ValuesOf(NonNull))
        ELSE /\ \/ FailedWith("Analysis error: could not convert string to float: 'a'")
                \/ FailedWith("Analysis error: int too large to convert to float")
             /\ DOMAIN result.data = {}

\* analyze_numeric_data has failed on a list that holds a None, a number and a
\* non-numeric string
C9_Witness ==
    /\ result.fn = "analyze_numeric_data"
    /\ ListInput
    /\ \E i, j, k \in 1..Len(input.items) :
           /\ input.items[i].kind = "none"
           /\ input.items[j].kind = "int"
           /\ input.items[k].kind = "str"
    /\ FailedWith("Analysis error: could not convert string to float: 'a'")

\* C10: analyze_numeric_data fails softly on unusable input: for None, an empty
\* list or a value that is not a list it returns success = false with the
\* warning 'Invalid numeric data', and for a non-empty list of None entries
\* only it returns success = false with the warning 'No valid numeric data found'.
C10_SoftFailure ==
    result.fn = "analyze_numeric_data" =>
        /\ (~ListInput \/ input.items = <<>>) => FailedWith("Invalid numeric data")
        /\ (ListInput /\ input.items # <<>> /\ NonNull = <<>>) =>
               FailedWith("No valid numeric data found")

\* analyze_numeric_data has been called on a non-empty list of None entries
C10_Witness ==
    /\ result.fn = "analyze_numeric_data"
    /\ ListInput
    /\ Len(input.items) >= 2
    /\ NonNull = <<>>
    /\ ~result.success

----------------------------------------------------------------------------
(* Claims about the statistics of analyze_numeric_data (specification SpecNum); *)
(* reported numbers are in ten-thousandths                                      *)

\* The numbers of the input list
InputNumbers == ValuesOf(input.items)

\* analyze_numeric_data has returned its report on the input
NumericDone ==
    /\ result.fn = "analyze_numeric_data"
    /\ result.kind = "result"
    /\ result.success

\* C11: analyze_numeric_data([1,2,3,4,100]) reports mean = 22.0 and median = 3,
\* and its outliers list contains 100.
C11_ExampleOutlier ==
    (result.fn = "analyze_numeric_data" /\ input = IntList(<<1, 2, 3, 4, 100>>)) =>
        /\ NumericDone
        /\ result.data.descriptive_stats.mean = 220000
        /\ result.data.descriptive_stats.median = 30000
        /\ \E i \in 1..Len(result.data.distribution.outliers) :
               result.data.distribution.outliers[i] = 1000000

\* C12: for every list of numbers with at least 4 distinct values the reported
\* quartiles and median satisfy Q1 <= median <= Q3, and so IQR >= 0.
C12_QuartilesOrdered ==
    (NumericDone /\ Cardinality({InputNumbers[i] : i \in 1..Len(InputNumbers)}) >= 4) =>
        /\ result.data.distribution.q1 <= result.data.descriptive_stats.median
        /\ result.data.descriptive_stats.median <= result.data.distribution.q3
        /\ result.data.distribution.iqr >= 0

\* a report on 4 or more distinct values, given out of order, with the median
\* strictly between the quartiles
C12_Witness ==
    /\ NumericDone
    /\ Cardinality({InputNumbers[i] : i \in 1..Len(InputNumbers)}) >= 4
    /\ InputNumbers[1] > InputNumbers[2]
    /\ result.data.distribution.q1 < result.data.descriptive_stats.median
    /\ result.data.descriptive_stats.median < result.data.distribution.q3

\* v lies outside the fences Q1 - 1.5*IQR and Q3 + 1.5*IQR of the report
BeyondFences(v) ==
    LET q1 == result.data.distribution.q1
        q3 == result.data.distribution.q3
        iqr == result.data.distribution.iqr
    IN  \/ 2 * 10000 * v < 2 * q1 - 3 * iqr
        \/ 2 * 10000 * v > 2 * q3 + 3 * iqr

\* C13: in every successful analyze_numeric_data result the outliers list is
\* exactly the values v with v < Q1 - 1.5*IQR or v > Q3 + 1.5*IQR, in input
\* order; outliers_count is its length; the warning 'Outliers detected' is
\* present exactly when it is non-empty; and data_quality_score is
\* 1 - outliers_count/count, which lies in [0, 1].
C13_OutlierRule ==
    NumericDone =>
        LET expected == SelectSeq(InputNumbers, BeyondFences)
            outliers == result.data.distribution.outliers
            score == result.metrics.data_quality_score
            n == result.data.descriptive_stats.count
        IN  /\ result.data.distribution.iqr =
                   result.data.distribution.q3 - result.data.distribution.q1
            /\ outliers = [i \in 1..Len(expected) |-> 10000 * expected[i]]
            /\ result.data.distribution.outliers_count = Len(outliers)
            /\ (\E i \in 1..Len(result.warnings) :
                    result.warnings[i] = "Outliers detected") <=> (outliers # <<>>)
            /\ score = <<n - Len(outliers), n>>
            /\ 0 <= score[1] /\ score[1] <= score[2]

\* a report with an outlier above the upper fence and a value that is not one
C13_Witness ==
    /\ NumericDone
    /\ result.data.distribution.outliers_count >= 1
    /\ result.data.distribution.outliers_count < result.data.descriptive_stats.count
    /\ result.data.distribution.q1 < result.data.distribution.q3
    /\ result.warnings = <<"Outliers detected">>

\* How many times v occurs among the numbers of the input
Occurrences(v) == Cardinality({i \in 1..Len(InputNumbers) : InputNumbers[i] = v})

\* The reported mode is null (every number of the model is a natural number)
ModeIsNull == result.data.descriptive_stats.mode \notin Nat

\* C14: the mode reported by analyze_numeric_data is the value that
\* occurs in a strict majority of the valid values when there is one, and null
\* otherwise (all values distinct, or two values tied).
C14_ModeIsStrictMajority ==
    NumericDone =>
        IF \E i \in 1..Len(InputNumbers) :
               2 * Occurrences(InputNumbers[i]) > Len(InputNumbers)
        THEN 2 * Occurrences(result.data.descriptive_stats.mode) > Len(InputNumbers)
        ELSE ModeIsNull

----------------------------------------------------------------------------
(* Claims about detect_patterns *)

\* The input is a list whose entries are all ints (10**400 is one)
NumberList ==
    /\ ListInput
    /\ \A i \in 1..Len(input.items) : input.items[i].kind \in {"int", "huge"}

\* detect_patterns has returned a result of the given branch
PatternsDone(branch) ==
    /\ result.fn = "detect_patterns"
    /\ result.kind = "result"
    /\ result.success
    /\ result.data.pattern_type = branch

\* C15: detect_patterns dispatches on the type of its input: a string takes the
\* text branch and succeeds; a list of numbers fails softly with 'Insufficient
\* data for pattern detection' when it has fewer than 3 values (the empty list
\* included) and otherwise takes the numeric branch and succeeds; every other
\* input fails softly with 'Unsupported data type for pattern detection'.
C15_Dispatch ==
    result.fn = "detect_patterns" =>
        IF input.kind = "str" THEN PatternsDone("text")
        ELSE IF NumberList
             THEN IF Len(input.items) < 3
                  THEN FailedWith("Insufficient data for pattern detection")
                  ELSE PatternsDone("numeric")
             ELSE FailedWith("Unsupported data type for pattern detection")

\* C16: for every list of at least 3 numbers detect_patterns reports the trend
\* 'increasing' when all first differences are >= 0, otherwise 'decreasing'
\* when all are <= 0, otherwise 'mixed'; so a non-decreasing list such as
\* [1,2,3,4,5] and a constant list are both 'increasing'.
C16_Trend ==
    PatternsDone("numeric") =>
        LET xs == InputNumbers
            rising == \A i \in 1..(Len(xs) - 1) : xs[i] <= xs[i + 1]
            falling == \A i \in 1..(Len(xs) - 1) : xs[i] >= xs[i + 1]
        IN  /\ Len(xs) >= 3
            /\ rising => result.data.trend = "increasing"
            /\ (~rising /\ falling) => result.data.trend = "decreasing"
            /\ (~rising /\ ~falling) => result.data.trend = "mixed"
            /\ input = IntList(<<1, 2, 3, 4, 5>>) => result.data.trend = "increasing"

\* detect_patterns has reported 'increasing' for a constant list
C16_Witness ==
    /\ PatternsDone("numeric")
    /\ \A i \in 1..Len(InputNumbers) : InputNumbers[i] = InputNumbers[1]
    /\ result.data.trend = "increasing"

RECURSIVE Gcd(_, _)
Gcd(a, b) == IF b = 0 THEN a ELSE Gcd(b, a % b)

\* A rational in lowest terms
Reduced(r) ==
    LET g == Gcd(IF r[1] < 0 THEN -r[1] ELSE r[1], r[2])
    IN  <<r[1] \div g, r[2] \div g>>

\* (sum over i >= lag of (x[i] - mean) * (x[i-lag] - mean)) / n, the mean and
\* the deviations as rationals
CovarianceAt(xs, lag) ==
    LET n == Len(xs)
        dev == [i \in 1..n |-> RatSub(<<xs[i], 1>>, <<Sum(xs), n>>)]
    IN  <<Sum([k \in 1..(n - lag) |-> dev[k + lag][1] * dev[k][1]]), n * n * n>>

\* sum((x - mean)**2) / (n - 1), as n*sum(x**2) - sum(x)**2 over n*(n - 1)
SampleVariance(xs) ==
    <<Len(xs) * Sum([i \in 1..Len(xs) |-> xs[i] * xs[i]]) - Sum(xs) * Sum(xs),
      Len(xs) * (Len(xs) - 1)>>

\* C17: for a list of n >= 3 numbers detect_patterns returns exactly min(5, n-1)
\* autocorrelation values, one per lag 1..min(5, n-1), each equal to the
\* covariance at that lag (normalised by n) divided by variance(data), and
\* every value is 0 when the variance is 0.
C17_Autocorrelation ==
    PatternsDone("numeric") =>
        LET xs == InputNumbers
            n == Len(xs)
            a == result.data.autocorrelation
            var == SampleVariance(xs)
        IN  /\ Len(a) = (IF n - 1 < 5 THEN n - 1 ELSE 5)
            /\ \A lag \in 1..Len(a) :
                   IF var[1] = 0 THEN a[lag][1] = 0
                   ELSE LET cov == CovarianceAt(xs, lag)
                        IN  Reduced(a[lag]) = Reduced(<<cov[1] * var[2], cov[2] * var[1]>>)

\* detect_patterns has returned 5 autocorrelation values for a list of 7, with
\* a positive and a negative one among them
C17_Witness ==
    /\ PatternsDone("numeric")
    /\ Len(InputNumbers) = 7
    /\ Len(result.data.autocorrelation) = 5
    /\ \E i, j \in 1..5 : /\ result.data.autocorrelation[i][1] > 0
                          /\ result.data.autocorrelation[j][1] < 0

\* The magnitude of the rational r is strictly greater than 0.5
AboveHalf(r) == 2 * r[1] > r[2] \/ 2 * r[1] < -r[2]

\* C18: detect_patterns on a list of numbers sets seasonality_detected to true
\* exactly when at least one of the returned autocorrelation values has a
\* magnitude strictly greater than 0.5, and to false otherwise, in particular
\* for every constant list.
C18_Seasonality ==
    PatternsDone("numeric") =>
        LET a == result.data.autocorrelation
        IN  /\ result.data.seasonality_detected <=> \E i \in 1..Len(a) : AboveHalf(a[i])
            /\ (\A i \in 1..Len(InputNumbers) : InputNumbers[i] = InputNumbers[1]) =>
                   ~result.data.seasonality_detected

\* seasonality detected on the strength of negative correlations alone
C18_Witness ==
    /\ PatternsDone("numeric")
    /\ result.data.seasonality_detected
    /\ \A i \in 1..Len(result.data.autocorrelation) :
           AboveHalf(result.data.autocorrelation[i]) =>
               result.data.autocorrelation[i][1] < 0

\* no seasonality with a correlation of exactly 0.5 in magnitude
C18_BoundaryReached ==
    /\ PatternsDone("numeric")
    /\ ~result.data.seasonality_detected
    /\ \E i \in 1..Len(result.data.autocorrelation) :
           \/ 2 * result.data.autocorrelation[i][1] = result.data.autocorrelation[i][2]
           \/ 2 * result.data.autocorrelation[i][1] = -result.data.autocorrelation[i][2]

----------------------------------------------------------------------------
(* Claims about analyze_text (specification SpecAn) *)

\* The two advisory strings of a successful analyze_text
TextAdvice ==
    <<"Consider longer text for more accurate analysis",
      "Review word frequency for key themes">>

\* C19: analyze_text returns the same two fixed advisory strings in
\* recommendations whatever the outcome: the list is identical for every
\* input, whether the call succeeds or is rejected with 'Invalid input text'.
C19_SameAdviceAlways ==
    (result.fn = "analyze_text" /\ result.kind = "result") =>
        result.recommendations = TextAdvice

\* C19 as amended: analyze_text returns the same two fixed advisory strings in
\* recommendations for every input it accepts (a non-empty string), whatever
\* the text and its warnings; a call rejected with 'Invalid input text' (an
\* empty string, or a value that is not a string) returns the single
\* recommendation 'Provide valid text for analysis' instead.
C19_AdviceByOutcome ==
    result.fn = "analyze_text" =>
        /\ result.kind = "result"
        /\ result.success <=> (input.kind = "str" /\ input.items # <<>>)
        /\ result.success => result.recommendations = TextAdvice
        /\ ~result.success =>
               /\ result.warnings = <<"Invalid input text">>
               /\ result.recommendations = <<"Provide valid text for analysis">>

\* analyze_text has rejected the empty string
C19_Witness ==
    /\ result.fn = "analyze_text"
    /\ input.kind = "str"
    /\ input.items = <<>>
    /\ ~result.success
    /\ Len(result.recommendations) = 1

----------------------------------------------------------------------------
(* Claims about repeated calls (specification SpecRepeat) *)

\* The metrics of a result without its wall-clock processing_time
TimelessMetrics(r) ==
    [k \in DOMAIN r.metrics \ {"processing_time"} |-> r.metrics[k]]

\* The call that produced the result is the first call over again
FirstCallAgain ==
    /\ result.fn = firstCall.fn
    /\ result.fn \in {"analyze_text", "analyze_numeric_data", "detect_patterns"}
    /\ input = firstCall.input

----------------------------------------------------------------------------
(* SecurityManager.is_strong_password.  A password is a sequence of        *)
(* one-character strings.                                                  *)

\* if len(password) < 8: return False
MinPasswordLength == 8

\* longest enumerated password
MaxPwLen == 8

\* str.islower, str.isupper, str.isdigit, str.isalnum on one ASCII character
IsLower(c) == c \in {"a", "b", "c", "d", "e", "f"}
IsUpper(c) == c \in {"A"}
IsDigit(c) == c \in {"1"}
IsAlnum(c) == IsLower(c) \/ IsUpper(c) \/ IsDigit(c)

\* the same function with the length test written len(password) <= 8
is_strong_password_longer(p) ==
    IF Len(p) <= MinPasswordLength
    THEN FALSE
    ELSE /\ \E i \in 1..Len(p) : IsLower(p[i])
         /\ \E i \in 1..Len(p) : IsUpper(p[i])
         /\ \E i \in 1..Len(p) : IsDigit(p[i])
         /\ \E i \in 1..Len(p) : ~IsAlnum(p[i])

is_strong_password(p) ==
    IF Len(p) < MinPasswordLength
    THEN FALSE
    ELSE /\ \E i \in 1..Len(p) : IsLower(p[i])
         /\ \E i \in 1..Len(p) : IsUpper(p[i])
         /\ \E i \in 1..Len(p) : IsDigit(p[i])
         /\ \E i \in 1..Len(p) : ~IsAlnum(p[i])

\* one character of each class, and the two passwords of the documentation
PwChars == {"a", "A", "1", "!"}
PwAbc == <<"a", "b", "c">>
PwAbcdef1 == <<"A", "b", "c", "d", "e", "f", "1", "!">>
Passwords == SeqsUpTo(PwChars, MaxPwLen) \cup {PwAbc, PwAbcdef1}

IsStrongPassword ==
    /\ ~strong.called
    /\ strong' = [called |-> TRUE, ret |-> is_strong_password(password)]
    /\ UNCHANGED <<password, guardVars, concVars, anVars, cacheVars, dbVars>>

PwInit ==
    /\ GuardInit
    /\ IdleThreads
    /\ NoAnalysis
    /\ password \in Passwords
    /\ strong = NotAsked
    /\ CacheIdle
    /\ DbIdle

PwNext == IsStrongPassword

SpecPw == PwInit /\ [][PwNext]_vars

----------------------------------------------------------------------------
(* Claims about is_strong_password *)

LowercaseLetters == {"a", "b", "c", "d", "e", "f"}
UppercaseLetters == {"A"}
Digits == {"1"}
Contains(p, S) == \E i \in 1..Len(p) : p[i] \in S
ContainsSymbol(p) ==
    \E i \in 1..Len(p) : p[i] \notin LowercaseLetters \cup UppercaseLetters \cup Digits

\* C21: is_strong_password(p) returns true exactly when p has at least 8
\* characters and holds a lowercase letter, an uppercase letter, a digit and a
\* non-alphanumeric character; 'abc' is rejected and 'Abcdef1!' is accepted.
C21_StrongPassword ==
    strong.called =>
        /\ strong.ret <=> /\ Len(password) >= 8
                          /\ Contains(password, LowercaseLetters)
                          /\ Contains(password, UppercaseLetters)
                          /\ Contains(password, Digits)
                          /\ ContainsSymbol(password)
        /\ password = PwAbc => ~strong.ret
        /\ password = PwAbcdef1 => strong.ret

\* 'Abcdef1!', of exactly 8 characters, has been accepted
C21_Witness ==
    /\ strong.called
    /\ password = PwAbcdef1
    /\ strong.ret

----------------------------------------------------------------------------
(* Claims about the retention of the attempt log *)

\* every timestamp of the log is at most `age` minutes before time t
NoneOlderThan(log, t, age) == \A i \in 1..Len(log) : t - log[i] <= age

\* C22 (as stated): after any record_failed_attempt(a) or is_ip_blocked(a)
\* call returns, the log of a holds no timestamp older than the window
\* relative to the time of the call.
C22_PrunedOnEachAccess ==
    [][\A a \in Addresses :
          (record_failed_attempt(a) \/ is_ip_blocked(a)) =>
              NoneOlderThan(Log(failed_attempts', a), now, WindowMinutes)]_vars

\* C22 (amended): record_failed_attempt(a) leaves in the log of a only
\* timestamps less than the window before the call; is_ip_blocked(a) does
\* not prune: it leaves the log as it found it, or empties it when it lifts
\* an expired block.
C22_PrunedOnRecordOnly ==
    [][\A a \in Addresses :
          /\ record_failed_attempt(a) =>
                \A i \in 1..Len(Log(failed_attempts', a)) :
                    now - Log(failed_attempts', a)[i] < WindowMinutes
          /\ is_ip_blocked(a) =>
                \/ Log(failed_attempts', a) = Log(failed_attempts, a)
                \/ /\ lastCall'.wasBlocked
                   /\ ~lastCall'.ret
                   /\ Log(failed_attempts', a) = <<>>]_vars

\* A second attempt since the last clear was recorded and the first one was
\* pruned.
C22_Witness ==
    \E a \in Addresses :
        /\ lastCall.op = "record"
        /\ lastCall.addr = a
        /\ Len(recorded[a]) = 2
        /\ Len(Log(failed_attempts, a)) = 1

\* C23: in every reachable state the log of any address holds at most
\* MaxAttempts timestamps, also when failed attempts keep arriving for an
\* address that is already blocked.
C23_LogBoundedByThreshold ==
    \A a \in Addresses : Len(Log(failed_attempts, a)) <= MaxAttempts

----------------------------------------------------------------------------
(* Claims about short lists in analyze_numeric_data *)

\* the values of the input different from the reported median, in input
\* order, as the report prints them
OffMedian ==
    LET off == SelectSeq(InputNumbers,
                   LAMBDA v : 10000 * v # result.data.descriptive_stats.median)
    IN  [i \in 1..Len(off) |-> 10000 * off[i]]

\* C24: with fewer than 4 values analyze_numeric_data reports Q1 = Q3 = median
\* and IQR = 0, its outliers are exactly the values different from the median,
\* and for two distinct values both are outliers and data_quality_score is 0.
C24_ShortListQuartiles ==
    (NumericDone /\ Len(InputNumbers) < 4) =>
        /\ result.data.distribution.q1 = result.data.descriptive_stats.median
        /\ result.data.distribution.q3 = result.data.descriptive_stats.median
        /\ result.data.distribution.iqr = 0
        /\ result.data.distribution.outliers = OffMedian
        /\ result.data.distribution.outliers_count = Len(OffMedian)
        /\ (Len(InputNumbers) = 2 /\ InputNumbers[1] # InputNumbers[2]) =>
               /\ result.data.distribution.outliers_count = 2
               /\ result.metrics.data_quality_score[1] = 0

\* a report on three values two of which are off the median
C24_Witness ==
    /\ NumericDone
    /\ Len(InputNumbers) = 3
    /\ result.data.distribution.outliers_count = 2
    /\ result.data.distribution.q1 = result.data.descriptive_stats.median

----------------------------------------------------------------------------
(* Claims about how a block ends *)

\* C25: a blocked address leaves the block set only through an is_ip_blocked
\* expiry or a clear_failed_attempts call; record_failed_attempt keeps a
\* blocked address blocked, also when its pruning leaves fewer than
\* MaxAttempts timestamps, and never moves the earliest retained timestamp,
\* from which the expiry is counted, backwards.
C25_BlockEndsByExpiryOrClear ==
    [][\A a \in Addresses :
          /\ (a \in blocked_ips /\ a \notin blocked_ips') =>
                \/ /\ lastCall' = [op |-> "check", addr |-> a, ret |-> FALSE,
                                   wasBlocked |-> TRUE]
                   /\ now - Min(Log(failed_attempts, a)) > BlockMinutes
                \/ lastCall' = [op |-> "clear", addr |-> a, ret |-> FALSE,
                                wasBlocked |-> TRUE]
          /\ (a \in blocked_ips /\ record_failed_attempt(a)) =>
                /\ a \in blocked_ips'
                /\ Log(failed_attempts, a) # <<>> =>
                       Min(Log(failed_attempts', a)) >= Min(Log(failed_attempts, a))]_vars

\* The address is blocked and its block has not expired more than
\* BlockMinutes after the oldest of the last MaxAttempts recorded attempts:
\* the newest of them was recorded while the address was blocked, pruned the
\* log below the threshold, and the block is now counted from it.
C25_Witness ==
    \E a \in Addresses :
        /\ a \in blocked_ips
        /\ Log(failed_attempts, a) # <<>>
        /\ now - Min(Log(failed_attempts, a)) <= BlockMinutes
        /\ Len(recorded[a]) = MaxAttempts
        /\ recorded[a][MaxAttempts] - recorded[a][1] >= WindowMinutes
        /\ now - recorded[a][1] > BlockMinutes
        /\ Len(Log(failed_attempts, a)) < MaxAttempts

\* C27: in every state reached by sequential record_failed_attempt,
\* is_ip_blocked and clear_failed_attempts calls, every address of the block
\* set has a non-empty log, so is_ip_blocked always has an earliest timestamp
\* to compare and never answers "blocked" without an expiry check.
C27_BlockedHasLog ==
    \A a \in Addresses :
        a \in blocked_ips => Log(failed_attempts, a) # <<>>

\* a blocked address whose log pruning has cut down to a single timestamp
C27_Witness ==
    \E a \in Addresses :
        /\ a \in blocked_ips
        /\ Len(Log(failed_attempts, a)) = 1
        /\ lastCall = [op |-> "check", addr |-> a, ret |-> TRUE, wasBlocked |-> TRUE]

----------------------------------------------------------------------------
(* The Guard when a blocked address makes no further attempt: the caller   *)
(* asks is_ip_blocked before it lets a login through, so attempts are      *)
(* recorded for unblocked addresses only, and nobody clears.  The clock    *)
(* keeps advancing and is_ip_blocked keeps being asked.                    *)

RecordWhileUnblocked(a) ==
    /\ a \notin blocked_ips
    /\ record_failed_attempt(a)

QuietNext ==
    \/ \E a \in Addresses : RecordWhileUnblocked(a)
    \/ \E a \in Addresses : is_ip_blocked(a)
    \/ Tick

QuietFairness ==
    /\ WF_vars(Tick)
    /\ \A a \in Addresses : WF_vars(is_ip_blocked(a))

SpecQuiet == Init /\ [][QuietNext]_vars /\ QuietFairness

\* The modelled clock can still pass the expiry of the block of a
ExpiryInHorizon(a) ==
    /\ Log(failed_attempts, a) # <<>>
    /\ Min(Log(failed_attempts, a)) + BlockMinutes + 5 <= MaxTime

\* is_ip_blocked(a) has just returned false for a blocked address, which is
\* Clean again
LiftedAndClean(a) ==
    /\ lastCall = [op |-> "check", addr |-> a, ret |-> FALSE, wasBlocked |-> TRUE]
    /\ a \notin blocked_ips
    /\ Log(failed_attempts, a) = <<>>

\* C26: if an address is blocked, the clock keeps advancing and no further
\* attempt is recorded for it, then an is_ip_blocked call on it eventually
\* returns false and leaves it with an empty log and out of the block set.
C26_BlockEventuallyEnds ==
    \A a \in Addresses :
        (a \in blocked_ips /\ ExpiryInHorizon(a)) ~> LiftedAndClean(a)

\* a block set by MaxAttempts attempts has been lifted by is_ip_blocked
C26_Witness ==
    \E a \in Addresses :
        /\ LiftedAndClean(a)
        /\ Len(recorded[a]) = MaxAttempts
        /\ now - recorded[a][MaxAttempts] > BlockMinutes

----------------------------------------------------------------------------
(* The Guard with a second client.  The calls are made for the addresses   *)
(* of Addresses; another address, Bystander, has made k failed attempts at *)
(* time 0 before them (which blocked it when k reached MaxAttempts) and    *)
(* makes no call afterwards.                                               *)

Bystander == "5.6.7.8"
BystanderAttempts == {0, 2, MaxAttempts}

OtherInit ==
    /\ now = 0
    /\ \E k \in BystanderAttempts :
          /\ failed_attempts = IF k = 0 THEN <<>>
                               ELSE [x \in {Bystander} |-> [i \in 1..k |-> 0]]
          /\ blocked_ips = IF ThresholdMet([i \in 1..k |-> 0]) THEN {Bystander} ELSE {}
    /\ lastCall = NoCall
    /\ recorded = [a \in Addresses |-> <<>>]
    /\ reached = [a \in Addresses |-> FALSE]
    /\ IdleThreads
    /\ NoAnalysis
    /\ RestIdle

SpecOther == OtherInit /\ [][Next]_vars

\* C28: record_failed_attempt(a), is_ip_blocked(a) and clear_failed_attempts(a)
\* never alter the log or the blocked status of an address b different from a.
C28_OtherAddressUntouched ==
    [][/\ (Bystander \in DOMAIN failed_attempts') = (Bystander \in DOMAIN failed_attempts)
       /\ Log(failed_attempts', Bystander) = Log(failed_attempts, Bystander)
       /\ (Bystander \in blocked_ips') = (Bystander \in blocked_ips)]_vars

\* The bystander is still blocked, with its log, after another address was
\* blocked and had its block lifted.
C28_Witness ==
    \E a \in Addresses :
        /\ a # Bystander
        /\ lastCall = [op |-> "check", addr |-> a, ret |-> FALSE, wasBlocked |-> TRUE]
        /\ a \notin blocked_ips
        /\ Bystander \in blocked_ips
        /\ Len(Log(failed_attempts, Bystander)) = MaxAttempts

----------------------------------------------------------------------------
(* CacheManager.  Every method runs under self._lock, so each is one step. *)
(* The clock counts seconds.  An expiry is None or a time.                 *)

\* the last second of the modelled clock
MaxCacheTime == 20

CacheSteps == {5}
Timeouts == {0, 5, 10}
CacheValues == {"v1", "v2"}

PyNoExpiry == [none |-> TRUE, at |-> 0]

\* expiry = time.time() + timeout if timeout else None
ExpiryOf(timeout, t) ==
    IF timeout # 0 THEN [none |-> FALSE, at |-> t + timeout] ELSE PyNoExpiry

\* (expiry is None or expiry >= time.time())
FreshInclusive(expiry, t) == expiry.none \/ expiry.at >= t

\* expiry is None or expiry > time.time()
Fresh(expiry, t) == expiry.none \/ expiry.at > t

\* expiry and expiry <= current_time
Stale(expiry, t) == ~expiry.none /\ expiry.at # 0 /\ expiry.at <= t

get(k) ==
    /\ IF k \in DOMAIN cache
       THEN IF Fresh(cache[k].expiry, clock)
            THEN /\ cacheRet' = [op |-> "get", key |-> k, none |-> FALSE,
                                 value |-> cache[k].value]
                 /\ UNCHANGED cache
            ELSE /\ cache' = Delete(cache, k)
                 /\ cacheRet' = [op |-> "get", key |-> k, none |-> TRUE, value |-> ""]
       ELSE /\ cacheRet' = [op |-> "get", key |-> k, none |-> TRUE, value |-> ""]
            /\ UNCHANGED cache
    /\ UNCHANGED <<clock, lastSet, guardVars, concVars, anVars, pwVars, dbVars>>

set(k, v, timeout) ==
    /\ cache' = Store(cache, k, [value |-> v, expiry |-> ExpiryOf(timeout, clock)])
    /\ lastSet' = [lastSet EXCEPT ![k] = [set |-> TRUE, value |-> v, at |-> clock,
                                          timeout |-> timeout]]
    /\ cacheRet' = [op |-> "set", key |-> k, none |-> TRUE, value |-> ""]
    /\ UNCHANGED <<clock, guardVars, concVars, anVars, pwVars, dbVars>>

delete(k) ==
    /\ IF k \in DOMAIN cache
       THEN /\ cache' = Delete(cache, k)
            /\ cacheRet' = [op |-> "delete", key |-> k, none |-> FALSE, value |-> "True"]
       ELSE /\ cacheRet' = [op |-> "delete", key |-> k, none |-> FALSE, value |-> "False"]
            /\ UNCHANGED cache
    /\ lastSet' = [lastSet EXCEPT ![k] = NoSet]
    /\ UNCHANGED <<clock, guardVars, concVars, anVars, pwVars, dbVars>>

clear ==
    /\ cache' = <<>>
    /\ lastSet' = [k \in Keys |-> NoSet]
    /\ cacheRet' = [op |-> "clear", key |-> "", none |-> TRUE, value |-> ""]
    /\ UNCHANGED <<clock, guardVars, concVars, anVars, pwVars, dbVars>>

cleanup_expired ==
    /\ cache' = [k \in {x \in DOMAIN cache : ~Stale(cache[x].expiry, clock)} |-> cache[k]]
    /\ cacheRet' = [op |-> "cleanup_expired", key |-> "", none |-> TRUE, value |-> ""]
    /\ UNCHANGED <<clock, lastSet, guardVars, concVars, anVars, pwVars, dbVars>>

\* time.time() moves on between two calls
CacheTick ==
    /\ \E d \in CacheSteps :
          /\ clock + d <= MaxCacheTime
          /\ clock' = clock + d
    /\ UNCHANGED <<cache, lastSet, cacheRet, guardVars, concVars, anVars, pwVars, dbVars>>

CacheInit ==
    /\ GuardInit
    /\ IdleThreads
    /\ NoAnalysis
    /\ PwIdle
    /\ CacheIdle
    /\ DbIdle

CacheNext ==
    \/ \E k \in Keys : get(k)
    \/ \E k \in Keys, v \in CacheValues, timeout \in Timeouts : set(k, v, timeout)
    \/ \E k \in Keys : delete(k)
    \/ clear
    \/ cleanup_expired
    \/ CacheTick

SpecCache == CacheInit /\ [][CacheNext]_vars

----------------------------------------------------------------------------
(* Claims about CacheManager *)

\* The last set of k, not followed by a set, delete or clear of k, had a
\* positive timeout that has run out at time t
TimedOut(k, t) ==
    /\ lastSet[k].set
    /\ lastSet[k].timeout > 0
    /\ t >= lastSet[k].at + lastSet[k].timeout

\* C29: after set(k, v, timeout) with no later set, delete or clear of k,
\* get(k) returns v at every time strictly before set-time + timeout and from
\* then on returns None and removes the entry; with timeout = 0 it returns v
\* at every time; cleanup_expired removes exactly the entries get would treat
\* as expired and leaves the others as they are.
C29_CacheHonoursTtl ==
    [][/\ \A k \in Keys :
             (get(k) /\ lastSet[k].set) =>
                 IF TimedOut(k, clock)
                 THEN /\ cacheRet'.none
                      /\ k \notin DOMAIN cache'
                 ELSE /\ ~cacheRet'.none
                      /\ cacheRet'.value = lastSet[k].value
                      /\ cache' = cache
       /\ cleanup_expired =>
             /\ DOMAIN cache' = {k \in DOMAIN cache : ~TimedOut(k, clock)}
             /\ \A k \in DOMAIN cache' : cache'[k] = cache[k]]_vars

\* get has returned None at the very second the timeout ran out, while the
\* other key, set without timeout, is still there
C29_Witness ==
    \E k \in Keys, j \in Keys :
        /\ cacheRet = [op |-> "get", key |-> k, none |-> TRUE, value |-> ""]
        /\ lastSet[k].set
        /\ lastSet[k].timeout > 0
        /\ clock = lastSet[k].at + lastSet[k].timeout
        /\ k \notin DOMAIN cache
        /\ j \in DOMAIN cache
        /\ lastSet[j].timeout = 0
        /\ clock > lastSet[j].at

----------------------------------------------------------------------------
(* DatabaseManager.authenticate_user (src/src/database.py), statement by   *)
(* statement, for threads that each have their own sqlite3 connection      *)
(* (get_connection keeps it in threading.local()).  A connection reads the *)
(* committed rows; sqlite3 opens its transaction, and takes the database   *)
(* write lock, at the first UPDATE, and commit() publishes its writes and  *)
(* releases the lock.  A connection that finds the lock taken waits, or    *)
(* gives up with OperationalError when the busy timeout runs out.          *)

\* the authenticate_user calls of one run
MaxLogins == 3

AuthThreads == {"t1", "t2"}

\* (username, password): right, wrong password, deactivated user, unknown user
Credentials ==
    {<<"alice", "pw-alice">>, <<"alice", "wrong">>, <<"bob", "pw-bob">>,
     <<"carol", "pw-carol">>}

NoAuth == [username |-> "", password |-> "", read |-> 0, logins |-> 0]

\* authenticate_user(username, password) is called
AuthCall(t, c) ==
    /\ apc[t] = "idle"
    /\ logged.calls < MaxLogins
    /\ logged' = [logged EXCEPT !.calls = @ + 1]
    /\ aloc' = [aloc EXCEPT ![t] = [NoAuth EXCEPT !.username = c[1], !.password = c[2]]]
    /\ apc' = [apc EXCEPT ![t] = "select"]
    /\ UNCHANGED <<users, writer, guardVars, concVars, anVars, pwVars, cacheVars>>

\* user = conn.execute("SELECT ... WHERE username = ? AND is_active = 1").fetchone()
\* if user and check_password_hash(user['password_hash'], password)
AuthSelect(t) ==
    /\ apc[t] = "select"
    /\ LET u == aloc[t].username
       IN  IF /\ u \in DOMAIN users
              /\ users[u].is_active
              /\ users[u].password = aloc[t].password
           THEN /\ aloc' = [aloc EXCEPT ![t].read = users[u].logins]
                /\ apc' = [apc EXCEPT ![t] = "update_last_login"]
           ELSE /\ apc' = [apc EXCEPT ![t] = "return_none"]
                /\ UNCHANGED aloc
    /\ UNCHANGED <<users, writer, logged, guardVars, concVars, anVars, pwVars, cacheVars>>

\* conn.execute("UPDATE users SET last_login = ? WHERE id = ?"): the first
\* write of the connection begins its transaction
AuthUpdateLastLogin(t) ==
    /\ apc[t] = "update_last_login"
    /\ \/ /\ writer = "none"
          /\ writer' = t
          /\ apc' = [apc EXCEPT ![t] = "update_profile"]
       \/ /\ writer \notin {"none", t}
          \* sqlite3.OperationalError: database is locked
          /\ apc' = [apc EXCEPT ![t] = "rollback"]
          /\ UNCHANGED writer
    /\ UNCHANGED <<users, aloc, logged, guardVars, concVars, anVars, pwVars, cacheVars>>

\* profile['statistics']['logins'] = profile['statistics'].get('logins', 0) + 1
\* conn.execute("UPDATE users SET profile_data = ? WHERE id = ?")
AuthUpdateProfile(t) ==
    /\ apc[t] = "update_profile"
    /\ aloc' = [aloc EXCEPT ![t].logins = aloc[t].read + 1]
    /\ apc' = [apc EXCEPT ![t] = "commit"]
    /\ UNCHANGED <<users, writer, logged, guardVars, concVars, anVars, pwVars, cacheVars>>

\* return dict(user), through transaction(): conn.commit()
AuthCommit(t) ==
    /\ apc[t] = "commit"
    /\ writer = t
    /\ users' = [users EXCEPT ![aloc[t].username] =
                     [@ EXCEPT !.logins = aloc[t].logins, !.last_login = "now"]]
    /\ writer' = "none"
    /\ logged' = [logged EXCEPT !.ok = @ + 1]
    /\ apc' = [apc EXCEPT ![t] = "idle"]
    /\ aloc' = [aloc EXCEPT ![t] = NoAuth]
    /\ UNCHANGED <<guardVars, concVars, anVars, pwVars, cacheVars>>

\* return None, through transaction(): conn.commit() with nothing written
AuthReturnNone(t) ==
    /\ apc[t] = "return_none"
    /\ apc' = [apc EXCEPT ![t] = "idle"]
    /\ aloc' = [aloc EXCEPT ![t] = NoAuth]
    /\ UNCHANGED <<users, writer, logged, guardVars, concVars, anVars, pwVars, cacheVars>>

\* transaction(): except Exception: conn.rollback(); raise
\* authenticate_user: except Exception: return None
AuthRollback(t) ==
    /\ apc[t] = "rollback"
    /\ apc' = [apc EXCEPT ![t] = "idle"]
    /\ aloc' = [aloc EXCEPT ![t] = NoAuth]
    /\ UNCHANGED <<users, writer, logged, guardVars, concVars, anVars, pwVars, cacheVars>>

DbInit ==
    /\ GuardInit
    /\ IdleThreads
    /\ NoAnalysis
    /\ PwIdle
    /\ CacheIdle
    /\ users = UsersCreated
    /\ writer = "none"
    /\ apc = [t \in AuthThreads |-> "idle"]
    /\ aloc = [t \in AuthThreads |-> NoAuth]
    /\ logged = [calls |-> 0, ok |-> 0]

DbNext ==
    \/ \E t \in AuthThreads, c \in Credentials : AuthCall(t, c)
    \/ \E t \in AuthThreads : AuthSelect(t)
    \/ \E t \in AuthThreads : AuthUpdateLastLogin(t)
    \/ \E t \in AuthThreads : AuthUpdateProfile(t)
    \/ \E t \in AuthThreads : AuthCommit(t)
    \/ \E t \in AuthThreads : AuthReturnNone(t)
    \/ \E t \in AuthThreads : AuthRollback(t)

SpecDb == DbInit /\ [][DbNext]_vars

----------------------------------------------------------------------------
(* Claims about authenticate_user *)

\* C30: when every call has returned, the stored statistics.logins of the
\* user has grown by the number of calls that returned the user, also when
\* calls ran concurrently on different threads; calls that returned None left
\* the rows as they were.
C30_EveryLoginCounted ==
    (\A t \in AuthThreads : apc[t] = "idle") =>
        /\ users["alice"].logins = UsersCreated["alice"].logins + logged.ok
        /\ users["bob"] = UsersCreated["bob"]
        /\ logged.ok = 0 => users = UsersCreated

====
